---- MODULE Spec2Model ----
(***************************************************************************)
(* A model of protolambda/ask: the structural loader (Load / LoadGroup /   *)
(* fillGroup / LoadField / FlagValue), the argument tokenizer (ParseArgs,  *)
(* ParseLongArg, ParseShortArg) and the execution engine (Execute).        *)
(*                                                                         *)
(* Go strings are sequences of one-character strings, so that the          *)
(* tokenizer's slicing, prefix tests and byte-wise comparisons are         *)
(* computed as the code computes them.                                     *)
(***************************************************************************)
EXTENDS Integers, Sequences, FiniteSets, TLC

VARIABLES
    pc,        \* position of the caller / of Execute: see the actions
    root,      \* name of the struct type the caller loads
    argv,      \* the args the caller hands to Execute
    args,      \* Execute: the args of the current recursion level; ParseArgs: args left
    opts,      \* opts.OnDeprecated: "nil" (opts or the callback is nil), or a callback
               \* that returns nil ("accept") or an error ("reject")
    descr,     \* the CommandDescription of the current recursion level
    mem,       \* the heap: field address -> value
    long,      \* Execute's sorted long-flag list
    short,     \* Execute's sorted short-flag list
    seen,      \* Execute's seen set
    remaining, \* the positional tokens ParseArgs has collected
    level,     \* number of routing recursions taken by Execute
    result,    \* what Execute returned: [final, err]
    log        \* history of the calls made out of Load and Execute

vars == <<pc, root, argv, args, opts, descr, mem, long, short, seen, remaining, level, result, log>>

-----------------------------------------------------------------------------
(* Bounds of the model *)

\* longest argument list handed to Execute
MaxArgs == 3

\* largest magnitude of the numbers whose numerals are handed to the integer
\* binders, and of the numbers the integer fields start with
MaxNumeral == 300

-----------------------------------------------------------------------------
(* Bytes and strings *)

\* byte values of the characters that occur in tags and tokens
Ascii ==
    (" " :> 32) @@ ("+" :> 43) @@ ("," :> 44) @@ ("-" :> 45) @@ ("." :> 46) @@
    ("0" :> 48) @@ ("1" :> 49) @@ ("2" :> 50) @@ ("3" :> 51) @@ ("4" :> 52) @@
    ("5" :> 53) @@ ("6" :> 54) @@ ("7" :> 55) @@ ("8" :> 56) @@ ("9" :> 57) @@
    ("<" :> 60) @@ ("=" :> 61) @@ (">" :> 62) @@
    ("A" :> 65) @@ ("B" :> 66) @@ ("C" :> 67) @@ ("D" :> 68) @@ ("E" :> 69) @@
    ("F" :> 70) @@ ("O" :> 79) @@ ("X" :> 88) @@ ("[" :> 91) @@ ("]" :> 93) @@
    ("a" :> 97) @@ ("b" :> 98) @@ ("c" :> 99) @@ ("d" :> 100) @@ ("e" :> 101) @@
    ("f" :> 102) @@ ("g" :> 103) @@ ("h" :> 104) @@ ("i" :> 105) @@ ("j" :> 106) @@
    ("k" :> 107) @@ ("l" :> 108) @@ ("m" :> 109) @@ ("n" :> 110) @@ ("o" :> 111) @@
    ("p" :> 112) @@ ("q" :> 113) @@ ("r" :> 114) @@ ("s" :> 115) @@ ("t" :> 116) @@
    ("u" :> 117) @@ ("v" :> 118) @@ ("w" :> 119) @@ ("x" :> 120) @@ ("y" :> 121) @@
    ("z" :> 122)

\* s[i:] of Go, i counted from 0
From(s, i) == SubSeq(s, i + 1, Len(s))

\* s[i:j] of Go
Slice(s, i, j) == SubSeq(s, i + 1, j)

HasPrefix(s, p) == Len(s) >= Len(p) /\ SubSeq(s, 1, Len(p)) = p

HasSuffix(s, p) == Len(s) >= Len(p) /\ SubSeq(s, Len(s) - Len(p) + 1, Len(s)) = p

\* a < b on Go strings: byte-wise lexicographic order
RECURSIVE StrLess(_, _)
StrLess(a, b) ==
    IF b = <<>> THEN FALSE
    ELSE IF a = <<>> THEN TRUE
    ELSE LET x == Ascii[Head(a)]
             y == Ascii[Head(b)]
         IN  IF x # y THEN x < y ELSE StrLess(Tail(a), Tail(b))

\* index (from 1) of the first sep in s, 0 when there is none
RECURSIVE IndexOf(_, _, _)
IndexOf(s, sep, i) ==
    IF i > Len(s) THEN 0
    ELSE IF s[i] = sep THEN i
    ELSE IndexOf(s, sep, i + 1)

\* strings.Split(s, sep) for a one-byte separator
RECURSIVE Split(_, _)
Split(s, sep) ==
    LET i == IndexOf(s, sep, 1)
    IN  IF i = 0 THEN <<s>>
        ELSE <<SubSeq(s, 1, i - 1)>> \o Split(SubSeq(s, i + 1, Len(s)), sep)

\* strings.SplitN(s, sep, 2)
SplitN2(s, sep) ==
    LET i == IndexOf(s, sep, 1)
    IN  IF i = 0 THEN <<s>>
        ELSE <<SubSeq(s, 1, i - 1), SubSeq(s, i + 1, Len(s))>>

\* strings.Join(ss, "."), used where the code writes path + "." + name
Dot(a, b) == a \o <<".">> \o b

\* sort.Search(n, f): the binary search of the standard library, whatever f is
RECURSIVE SearchLoop(_, _, _)
SearchLoop(i, j, f) ==
    IF i < j
    THEN LET h == (i + j) \div 2
         IN  IF ~f[h] THEN SearchLoop(h + 1, j, f) ELSE SearchLoop(i, h, f)
    ELSE i

\* f is the predicate tabulated over the Go indices 0..n-1; the result is a Go index
Search(n, f) == SearchLoop(0, n, f)

\* sort.SliceStable(s, less) with less(i, j) = s[i].Path < s[j].Path
RECURSIVE InsertByPath(_, _)
InsertByPath(sorted, x) ==
    IF sorted = <<>> THEN <<x>>
    ELSE IF StrLess(x.Path, sorted[Len(sorted)].Path)
         THEN InsertByPath(SubSeq(sorted, 1, Len(sorted) - 1), x) \o <<sorted[Len(sorted)]>>
         ELSE Append(sorted, x)

RECURSIVE SortStableByPath(_)
SortStableByPath(s) ==
    IF s = <<>> THEN <<>>
    ELSE InsertByPath(SortStableByPath(SubSeq(s, 1, Len(s) - 1)), s[Len(s)])

-----------------------------------------------------------------------------
(* Errors.  An error is a record; kind "nil" is Go's nil error. *)

NoErr == [kind |-> "nil"]
HelpErr == [kind |-> "HelpErr"]
UnrecognizedErr == [kind |-> "UnrecognizedErr"]
Errorf(kind, info) == [kind |-> kind, info |-> info]

-----------------------------------------------------------------------------
(* The structures handed to Load.  A reflect.Type is a record: a leaf kind, *)
(* a pointer, or a named struct whose fields carry their struct tags.      *)

Leaf(kind) == [Kind |-> kind]
StructT(name) == [Kind |-> "struct", Name |-> name]
PtrTo(typ) == [Kind |-> "ptr", Elem |-> typ]
SliceOf(typ) == [Kind |-> "slice", Elem |-> typ]
ArrayOf(n, typ) == [Kind |-> "array", Len |-> n, Elem |-> typ]

NoTags == <<>>

\* README "Group flags": type ConnOptions struct { Port uint16 `ask:"--port"` }
ConnOptionsFields ==
    << [Name |-> "Port", Type |-> Leaf("uint16"),
        Tag |-> [ask |-> <<"-","-","p","o","r","t">>]] >>

\* README "Group flags": type NodeCmd struct { Websocket `ask:".ws"`; Tcp `ask:".tcp"` }
NodeCmdFields ==
    << [Name |-> "Websocket", Type |-> StructT("ConnOptions"),
        Tag |-> [ask |-> <<".","w","s">>, help |-> "Websocket connection options"]],
       [Name |-> "Tcp", Type |-> StructT("ConnOptions"),
        Tag |-> [ask |-> <<".","t","c","p">>, help |-> "Websocket connection options"]] >>

\* two sub-groups declared with the same group name
DupGroupsFields ==
    << [Name |-> "A", Type |-> StructT("ConnOptions"), Tag |-> [ask |-> <<".","w","s">>]],
       [Name |-> "B", Type |-> StructT("ConnOptions"), Tag |-> [ask |-> <<".","w","s">>]] >>

\* an inline group repeating a name of its parent
DupInlineFields ==
    << [Name |-> "Port", Type |-> Leaf("uint16"),
        Tag |-> [ask |-> <<"-","-","p","o","r","t">>]],
       [Name |-> "ConnOptions", Type |-> StructT("ConnOptions"), Tag |-> [ask |-> <<".">>]] >>

\* two fields with the same name in one group
DupFieldsFields ==
    << [Name |-> "P1", Type |-> Leaf("uint16"),
        Tag |-> [ask |-> <<"-","-","p","o","r","t">>]],
       [Name |-> "P2", Type |-> Leaf("uint16"),
        Tag |-> [ask |-> <<"-","-","p","o","r","t">>]] >>

\* the test's Peer: an untagged embedded pointer, and the route to connect
PeerFields ==
    << [Name |-> "ActorState", Type |-> PtrTo(StructT("ActorState")), Tag |-> NoTags] >>

\* the test's Connect, cut down to one flag, one deprecated flag, a required
\* and an optional positional, with change markers on the flag (two of
\* them), on the deprecated flag and on the required positional
ConnectFields ==
    << [Name |-> "ActorState", Type |-> PtrTo(StructT("ActorState")), Tag |-> NoTags],
       [Name |-> "Port", Type |-> Leaf("uint16"),
        Tag |-> [ask |-> <<"-","-","p","o","r","t">>, help |-> "port to use for connection"]],
       [Name |-> "Old", Type |-> Leaf("string"),
        Tag |-> [ask |-> <<"-","-","o","l","d">>, deprecated |-> "use --port"]],
       [Name |-> "PeerID", Type |-> Leaf("string"),
        Tag |-> [ask |-> <<"<","i","d",">">>, help |-> "libp2p ID of the peer"]],
       [Name |-> "More", Type |-> Leaf("string"),
        Tag |-> [ask |-> <<"[","m","o","r","e","]">>, help |-> "something optional"]],
       [Name |-> "PortIsSet", Type |-> Leaf("bool"),
        Tag |-> [changed |-> <<"p","o","r","t">>]],
       [Name |-> "PortAlsoSet", Type |-> Leaf("bool"),
        Tag |-> [changed |-> <<"p","o","r","t">>]],
       [Name |-> "OldIsSet", Type |-> Leaf("bool"),
        Tag |-> [changed |-> <<"o","l","d">>]],
       [Name |-> "IdIsSet", Type |-> Leaf("bool"),
        Tag |-> [changed |-> <<"i","d">>]] >>

\* README "Flags": the example BoundCmd, its tags as documented
BoundCmdFields ==
    << [Name |-> "LowBound", Type |-> Leaf("uint16"),
        Tag |-> [ask |-> <<"-","-","l","o","w"," ","-","l">>, help |-> "Lower bound"]],
       [Name |-> "HighBound", Type |-> Leaf("uint16"),
        Tag |-> [ask |-> <<"-","-","h","i","g","h"," ","-","h">>, help |-> "higher bound"]] >>

\* README "Struct tags": `ask:"-v"`, a shorthand flag
VerboseCmdFields ==
    << [Name |-> "Verbose", Type |-> Leaf("string"), Tag |-> [ask |-> <<"-","v">>]] >>

\* README "Struct tags": `ask:"--verbose -v"`, a long flag with a shorthand
VerboseLongCmdFields ==
    << [Name |-> "Verbose", Type |-> Leaf("string"),
        Tag |-> [ask |-> <<"-","-","v","e","r","b","o","s","e"," ","-","v">>]] >>

\* the declarations of low/l and high/h that LoadField accepts: the shorthand
\* first and longer than two bytes, the long name last
ShortCmdFields ==
    << [Name |-> "LowBound", Type |-> Leaf("uint16"),
        Tag |-> [ask |-> <<"-","l","o"," ","-","-","l","o","w">>]],
       [Name |-> "HighBound", Type |-> Leaf("uint16"),
        Tag |-> [ask |-> <<"-","h","i"," ","-","-","h","i","g","h">>]] >>

\* a command that is a route as well: one flag and one required positional
RouteCmdFields ==
    << [Name |-> "Port", Type |-> Leaf("uint16"),
        Tag |-> [ask |-> <<"-","-","p","o","r","t">>]],
       [Name |-> "Name", Type |-> Leaf("string"),
        Tag |-> [ask |-> <<"<","n","a","m","e",">">>]] >>

\* two commands whose flags a caller loads into one description
LowCmdFields ==
    << [Name |-> "Low", Type |-> Leaf("uint16"), Tag |-> [ask |-> <<"-","-","l","o","w">>]] >>

HighCmdFields ==
    << [Name |-> "High", Type |-> Leaf("uint16"),
        Tag |-> [ask |-> <<"-","-","h","i","g","h">>]] >>

\* two flags whose shorthand letters are in the opposite order of their names
MixedCmdFields ==
    << [Name |-> "Alpha", Type |-> Leaf("uint16"),
        Tag |-> [ask |-> <<"-","z","x"," ","-","-","a","l","p","h","a">>]],
       [Name |-> "Beta", Type |-> Leaf("uint16"),
        Tag |-> [ask |-> <<"-","b","x"," ","-","-","b","e","t","a">>]] >>

\* required positionals in a sub-group, in an inline group and in a plain field
\* declared after the two groups
OrderCmdFields ==
    << [Name |-> "Peer", Type |-> StructT("FirstSlot"), Tag |-> [ask |-> <<".","p","e","e","r">>]],
       [Name |-> "SecondSlot", Type |-> StructT("SecondSlot"), Tag |-> [ask |-> <<".">>]],
       [Name |-> "Third", Type |-> Leaf("string"),
        Tag |-> [ask |-> <<"<","t","h","i","r","d",">">>]] >>

\* three flags of a caller's type Switch, which implements flag.Value and
\* ImplicitValue as the README does for a boolean flag
SwitchCmdFields ==
    << [Name |-> "A", Type |-> Leaf("Switch"),
        Tag |-> [ask |-> <<"-","a","x"," ","-","-","a","a">>]],
       [Name |-> "B", Type |-> Leaf("Switch"),
        Tag |-> [ask |-> <<"-","b","x"," ","-","-","b","b">>]],
       [Name |-> "C", Type |-> Leaf("Switch"),
        Tag |-> [ask |-> <<"-","c","x"," ","-","-","c","c">>]] >>

\* a command with a Default(), a sub-group and an inline group that have a
\* Default() of their own, after Connect and InlineOptions of the test
OuterCmdFields ==
    << [Name |-> "Limit", Type |-> Leaf("uint16"),
        Tag |-> [ask |-> <<"-","-","l","i","m","i","t">>]],
       [Name |-> "Inner", Type |-> StructT("InnerOptions"),
        Tag |-> [ask |-> <<".","i","n","n","e","r">>]],
       [Name |-> "InlineOptions", Type |-> StructT("InlineOptions"), Tag |-> [ask |-> <<".">>]] >>

\* typ.NumField() / typ.Field(i) of a struct type
StructFields(name) ==
    CASE name = "ConnOptions" -> ConnOptionsFields
      [] name = "NodeCmd" -> NodeCmdFields
      [] name = "DupGroups" -> DupGroupsFields
      [] name = "DupInline" -> DupInlineFields
      [] name = "DupFields" -> DupFieldsFields
      [] name = "Peer" -> PeerFields
      [] name = "Connect" -> ConnectFields
      [] name = "BoundCmd" -> BoundCmdFields
      [] name = "VerboseCmd" -> VerboseCmdFields
      [] name = "VerboseLongCmd" -> VerboseLongCmdFields
      [] name = "ShortCmd" -> ShortCmdFields
      [] name = "RouteCmd" -> RouteCmdFields
      [] name = "LowCmd" -> LowCmdFields
      [] name = "HighCmd" -> HighCmdFields
      [] name = "MixedCmd" -> MixedCmdFields
      [] name = "OrderCmd" -> OrderCmdFields
      [] name = "SwitchCmd" -> SwitchCmdFields
      [] name = "OuterCmd" -> OuterCmdFields
      [] name = "InnerOptions" ->
            << [Name |-> "Level", Type |-> Leaf("uint16"),
                Tag |-> [ask |-> <<"-","-","l","e","v","e","l">>]],
               [Name |-> "Depth", Type |-> Leaf("uint16"),
                Tag |-> [ask |-> <<"-","-","d","e","p","t","h">>]] >>
      [] name = "InlineOptions" ->
            << [Name |-> "Foobar", Type |-> Leaf("uint16"),
                Tag |-> [ask |-> <<"-","-","f","o","o","b","a","r">>]] >>
      [] name = "PtrCmd" ->
            << [Name |-> "Count", Type |-> PtrTo(Leaf("uint16")),
                Tag |-> [ask |-> <<"-","-","c","o","u","n","t">>]],
               [Name |-> "Conn", Type |-> PtrTo(StructT("InlineOptions0")),
                Tag |-> [ask |-> <<".","c","o","n","n">>]] >>
      [] name = "InlineOptions0" ->
            << [Name |-> "Foobar", Type |-> Leaf("uint16"),
                Tag |-> [ask |-> <<"-","-","f","o","o","b","a","r">>]] >>
      [] name = "PtrDefaultCmd" ->
            << [Name |-> "Inner", Type |-> PtrTo(StructT("InnerOptions")),
                Tag |-> [ask |-> <<".","i","n","n","e","r">>]] >>
      [] name = "PtrValueCmd" ->
            << [Name |-> "Sw", Type |-> PtrTo(Leaf("Switch")),
                Tag |-> [ask |-> <<"-","-","s","w">>]] >>
      [] name = "FirstCmd" ->
            << [Name |-> "Foobar", Type |-> Leaf("uint16"),
                Tag |-> [ask |-> <<"-","-","f","o","o","b","a","r">>]] >>
      [] name = "MarkedBadCmd" ->
            << [Name |-> "PortChanged", Type |-> Leaf("bool"),
                Tag |-> [changed |-> <<"p","o","r","t">>]],
               [Name |-> "Port", Type |-> Leaf("uint16"),
                Tag |-> [ask |-> <<"-","-","p","o","r","t">>]],
               [Name |-> "Bad", Type |-> Leaf("chan"),
                Tag |-> [ask |-> <<"-","-","b","a","d">>]] >>
      [] name = "FirstSlot" ->
            << [Name |-> "First", Type |-> Leaf("string"),
                Tag |-> [ask |-> <<"<","f","i","r","s","t",">">>]] >>
      [] name = "SecondSlot" ->
            << [Name |-> "Second", Type |-> Leaf("string"),
                Tag |-> [ask |-> <<"<","s","e","c","o","n","d",">">>]] >>
      [] OTHER -> <<>>

\* the methods declared on the pointer receiver of each struct type
PtrMethods(name) ==
    CASE name = "Peer" -> {"CommandRoute", "CommandKnownRoutes"}
      [] name = "Connect" -> {"Command", "Help", "InitDefault"}
      [] name \in {"RouteCmd", "HighCmd", "MarkedBadCmd"} -> {"Command", "CommandRoute"}
      [] name = "LowCmd" -> {"Command"}
      [] name = "OuterCmd" -> {"Command", "InitDefault"}
      [] name \in {"InnerOptions", "InlineOptions"} -> {"InitDefault"}
      [] name \in {"NodeCmd", "DupGroups", "DupInline", "DupFields",
                   "BoundCmd", "VerboseCmd", "VerboseLongCmd", "ShortCmd",
                   "MixedCmd", "OrderCmd", "SwitchCmd",
                   "PtrCmd", "PtrDefaultCmd", "PtrValueCmd"} -> {"Command"}
      [] OTHER -> {}

\* typ.Implements(iface)
Implements(typ, iface) ==
    typ.Kind = "ptr" /\ typ.Elem.Kind = "struct" /\ iface \in PtrMethods(typ.Elem.Name)

\* the struct types a caller loads as a root command
Roots ==
    {"Peer", "Connect", "NodeCmd", "DupGroups", "DupInline", "DupFields",
     "BoundCmd", "VerboseCmd", "VerboseLongCmd", "ShortCmd", "RouteCmd", "LowCmd",
     "MixedCmd", "OrderCmd", "SwitchCmd", "OuterCmd",
     "PtrCmd", "PtrDefaultCmd", "PtrValueCmd", "FirstCmd", "MarkedBadCmd"}

\* the values a caller loads into the description of a root after the root
\* itself, with descr.Load
MoreValues(r) ==
    CASE r = "LowCmd" -> <<"HighCmd">>
      [] r = "FirstCmd" -> <<"MarkedBadCmd">>
      [] OTHER -> <<>>

\* Peer.Cmd of the test: connect is a sub-command, everything else is rejected.
\* RouteCmd.Cmd: connect is a sub-command, for everything else the route is
\* ignored by returning nil, nil.  HighCmd.Cmd ignores every route.
Cmd(name, route) ==
    IF route = <<"c","o","n","n","e","c","t">> /\ name \in {"Peer", "RouteCmd"}
    THEN [sub |-> "Connect", err |-> NoErr]
    ELSE IF name \in {"RouteCmd", "HighCmd"}
    THEN [sub |-> "nil", err |-> NoErr]
    ELSE [sub |-> "nil", err |-> UnrecognizedErr]

\* Connect.Default of the test: c.Port = 9000.  OuterCmd.Default writes its own
\* field and, as Connect.Default of the test does, fields of its sub-group;
\* InnerOptions.Default and InlineOptions.Default write a field of their own.
Default(name, addr, m) ==
    CASE name = "Connect" -> [m EXCEPT ![Append(addr, "Port")] = 9000]
      [] name = "OuterCmd" ->
            [m EXCEPT ![Append(addr, "Limit")] = 9000,
                      ![addr \o <<"Inner", "Level">>] = 1,
                      ![addr \o <<"Inner", "Depth">>] = 7]
      [] name = "InnerOptions" -> [m EXCEPT ![Append(addr, "Level")] = 2]
      [] name = "InlineOptions" -> [m EXCEPT ![Append(addr, "Foobar")] = 4]
      [] OTHER -> m

\* val.IsNil() of the pointer stored at addr: nothing was allocated there
IsNil(addr, m) == \A a \in DOMAIN m : ~HasPrefix(a, addr)

\* a nil pointer dereference in a method called on a nil receiver
PanicErr == [kind |-> "panic: nil pointer dereference"]

\* the zero value of a type, laid out at addr: field address -> value
RECURSIVE ZeroMem(_, _), ZeroFields(_, _, _)
ZeroMem(typ, addr) ==
    CASE typ.Kind = "struct" -> ZeroFields(StructFields(typ.Name), addr, 1)
      [] typ.Kind = "ptr" -> <<>>    \* nil: the heap holds no pointee at addr
      [] typ.Kind = "string" -> (addr :> <<>>)
      [] typ.Kind \in {"bool", "Switch"} -> (addr :> FALSE)
      [] typ.Kind = "slice" -> (addr :> <<>>)
      [] typ.Kind = "array" -> (addr :> [i \in 1..typ.Len |-> 0])
      [] OTHER -> (addr :> 0)

ZeroFields(fields, addr, i) ==
    IF i > Len(fields) THEN <<>>
    ELSE ZeroMem(fields[i].Type, Append(addr, fields[i].Name)) @@ ZeroFields(fields, addr, i + 1)

-----------------------------------------------------------------------------
(* Values: the typed binders of FlagValue and their Set / String.          *)

\* the value of a digit byte in strconv's number syntax; 99 for any other byte
DigitVal(c) ==
    LET b == Ascii[c]
    IN  IF b >= 48 /\ b <= 57 THEN b - 48
        ELSE IF b >= 97 /\ b <= 122 THEN b - 97 + 10
        ELSE IF b >= 65 /\ b <= 90 THEN b - 65 + 10
        ELSE 99

\* 2^bitSize - 1 for the widths the model binds
MaxUint(bitSize) == IF bitSize = 8 THEN 255 ELSE 65535

\* ParseDigits without the range check: the value wraps around at maxVal + 1
RECURSIVE ParseDigitsWrapping(_, _, _, _)
ParseDigitsWrapping(s, base, maxVal, n) ==
    IF s = <<>> THEN [v |-> n, err |-> NoErr]
    ELSE IF DigitVal(Head(s)) >= base THEN [v |-> 0, err |-> [kind |-> "ErrSyntax"]]
    ELSE ParseDigitsWrapping(Tail(s), base, maxVal,
                             (n * base + DigitVal(Head(s))) % (maxVal + 1))

\* the digit loop of strconv.ParseUint: n accumulated so far, digits s in base
RECURSIVE ParseDigits(_, _, _, _)
ParseDigits(s, base, maxVal, n) ==
    IF s = <<>> THEN [v |-> n, err |-> NoErr]
    ELSE LET dv == DigitVal(Head(s))
         IN  IF dv >= base THEN [v |-> 0, err |-> [kind |-> "ErrSyntax"]]
             ELSE IF n * base + dv > maxVal THEN [v |-> maxVal, err |-> [kind |-> "ErrRange"]]
             ELSE ParseDigits(Tail(s), base, maxVal, n * base + dv)

\* strconv.ParseUint(s, 0, bitSize): base 0 takes the base from the prefix
ParseUint(s, bitSize) ==
    LET prefixed == Len(s) >= 3 /\ s[1] = "0" /\ s[2] \in {"b", "o", "x", "B", "O", "X"}
        base == IF s[1] # "0" THEN 10
                ELSE IF prefixed /\ s[2] \in {"b", "B"} THEN 2
                ELSE IF prefixed /\ s[2] \in {"x", "X"} THEN 16
                ELSE 8
        digits == IF s[1] # "0" THEN s ELSE IF prefixed THEN From(s, 2) ELSE From(s, 1)
    IN  IF s = <<>> THEN [v |-> 0, err |-> [kind |-> "ErrSyntax"]]
        ELSE ParseDigits(digits, base, MaxUint(bitSize), 0)

\* strconv.ParseInt after ParseUint returned r for the digits: the range check
\* against cutoff = 2^(bitSize-1) and the sign
SignedResult(r, neg, cutoff) ==
    IF r.err.kind \notin {"nil", "ErrRange"} THEN [v |-> 0, err |-> r.err]
    ELSE IF ~neg /\ r.v >= cutoff THEN [v |-> cutoff - 1, err |-> [kind |-> "ErrRange"]]
    ELSE IF neg /\ r.v > cutoff THEN [v |-> 0 - cutoff, err |-> [kind |-> "ErrRange"]]
    ELSE [v |-> IF neg THEN 0 - r.v ELSE r.v, err |-> NoErr]

\* strconv.ParseInt(s, 0, bitSize)
ParseInt(s, bitSize) ==
    IF s = <<>> THEN [v |-> 0, err |-> [kind |-> "ErrSyntax"]]
    ELSE SignedResult(ParseUint(IF s[1] \in {"+", "-"} THEN Tail(s) ELSE s, bitSize),
                      s[1] = "-", IF bitSize = 8 THEN 128 ELSE 32768)

\* FormatUint with base 8 in place of base 10
RECURSIVE FormatUintOctal(_)
FormatUintOctal(v) ==
    LET d == <<"0","1","2","3","4","5","6","7">>[(v % 8) + 1]
    IN  IF v < 8 THEN <<d>> ELSE Append(FormatUintOctal(v \div 8), d)

\* strconv.FormatUint(v, 10)
RECURSIVE FormatUint(_)
FormatUint(v) ==
    LET d == <<"0","1","2","3","4","5","6","7","8","9">>[(v % 10) + 1]
    IN  IF v < 10 THEN <<d>> ELSE Append(FormatUint(v \div 10), d)

\* strconv.FormatInt(v, 10)
FormatInt(v) == IF v < 0 THEN <<"-">> \o FormatUint(0 - v) ELSE FormatUint(v)

\* strconv.ParseBool
ParseBool(s) ==
    IF s \in {<<"1">>, <<"t">>, <<"T">>, <<"T","R","U","E">>, <<"t","r","u","e">>, <<"T","r","u","e">>}
    THEN [v |-> TRUE, err |-> NoErr]
    ELSE IF s \in {<<"0">>, <<"f">>, <<"F">>, <<"F","A","L","S","E">>,
                   <<"f","a","l","s","e">>, <<"F","a","l","s","e">>}
    THEN [v |-> FALSE, err |-> NoErr]
    ELSE [v |-> FALSE, err |-> [kind |-> "ErrSyntax"]]

\* strings.TrimSpace, on the left and on the right
RECURSIVE TrimLeft(_)
TrimLeft(s) == IF s # <<>> /\ s[1] = " " THEN TrimLeft(Tail(s)) ELSE s

RECURSIVE TrimRight(_)
TrimRight(s) ==
    IF s # <<>> /\ s[Len(s)] = " " THEN TrimRight(SubSeq(s, 1, Len(s) - 1)) ELSE s

TrimSpace(s) == TrimRight(TrimLeft(s))

\* strings.ToLower
ToLower(s) ==
    [i \in 1..Len(s) |->
        IF Ascii[s[i]] >= 65 /\ Ascii[s[i]] <= 90
        THEN CHOOSE c \in DOMAIN Ascii : Ascii[c] = Ascii[s[i]] + 32
        ELSE s[i]]

\* fromHexChar of encoding/hex; 99 for a byte that is no hex digit
fromHexChar(c) ==
    LET b == Ascii[c]
    IN  IF b >= 48 /\ b <= 57 THEN b - 48
        ELSE IF b >= 97 /\ b <= 102 THEN b - 97 + 10
        ELSE IF b >= 65 /\ b <= 70 THEN b - 65 + 10
        ELSE 99

\* hex.Decode after its loop decoded the pairs of rest into r
HexPair(a, b, r) ==
    IF a = 99 \/ b = 99 THEN [v |-> <<>>, err |-> [kind |-> "InvalidByteError"]]
    ELSE IF r.err.kind # "nil" THEN r
    ELSE [v |-> <<a * 16 + b>> \o r.v, err |-> NoErr]

\* hex.DecodeString: pairs of hex digits, ErrLength for an odd number of them
RECURSIVE DecodeString(_)
DecodeString(s) ==
    IF s = <<>> THEN [v |-> <<>>, err |-> NoErr]
    ELSE IF Len(s) = 1
    THEN [v |-> <<>>, err |-> [kind |-> IF fromHexChar(s[1]) = 99 THEN "InvalidByteError"
                                        ELSE "ErrLength"]]
    ELSE HexPair(fromHexChar(s[1]), fromHexChar(s[2]), DecodeString(From(s, 2)))

\* if strings.HasPrefix(value, "0x") { value = value[2:] }
Strip0x(s) == IF HasPrefix(s, <<"0","x">>) THEN From(s, 2) ELSE s

\* BytesHexFlag.Set up to the assignment
BytesHexParse(s) == DecodeString(Strip0x(ToLower(TrimSpace(s))))

\* LengthChecked without the comparison of the lengths
LengthUnchecked(r, expected) == r

\* the length check of fixedLenBytes.Set and fixedLenBytesSlice.Set on the decoded r
LengthChecked(r, expected) ==
    IF r.err.kind # "nil" THEN r
    ELSE IF Len(r.v) # expected
    THEN [v |-> <<>>,
          err |-> Errorf("byte length does not match fixed-length", <<expected, Len(r.v)>>)]
    ELSE r

\* fixedLenBytes.Set up to the copy
FixedLenParse(s, expected) == LengthChecked(BytesHexParse(s), expected)

\* the loop of a slice Set: r is the first element parsed, rest the others
ElemThen(r, rest) ==
    IF r.err.kind # "nil" THEN [v |-> <<>>, err |-> r.err]
    ELSE IF rest.err.kind # "nil" THEN rest
    ELSE [v |-> <<r.v>> \o rest.v, err |-> NoErr]

\* the parse of one element of a slice Set
ElemParse(kind, d, elemLen) ==
    CASE kind = "uint16Slice" -> ParseUint(d, 16)
      [] kind = "boolSlice" -> ParseBool(d)
      [] kind = "fixedLenBytesSlice" ->
            LengthChecked(DecodeString(Strip0x(TrimSpace(d))), elemLen)

\* for i, d := range ss: every element parsed, the first error returned
RECURSIVE ParseEach(_, _, _)
ParseEach(kind, ss, elemLen) ==
    IF ss = <<>> THEN [v |-> <<>>, err |-> NoErr]
    ELSE ElemThen(ElemParse(kind, ss[1], elemLen), ParseEach(kind, Tail(ss), elemLen))

\* readAsCSV, for text without quotes and line breaks: one record, its fields
\* separated by the commas
readAsCSV(s) ==
    IF s = <<>> THEN [v |-> <<>>, err |-> NoErr] ELSE [v |-> Split(s, ","), err |-> NoErr]

\* the elements fixedLenBytesSlice.Set iterates over
FixedLenElems(value) == IF Len(value) > 0 THEN Split(value, ",") ELSE <<>>

\* the field kinds of the loaded structures that FlagValue's kind switch binds
BoundKinds == {"uint8", "uint16", "int8", "int16", "string", "bool"}

\* the field types of the callers that implement flag.Value themselves: Switch,
\* a bool whose Set and String are those of BoolValue, with Implicit() "true"
CustomKinds == {"Switch"}

\* the binders that assign their destination only after a parse without error
CompositeKinds ==
    {"uint16Slice", "boolSlice", "stringSlice", "bytes", "fixedLenBytes", "fixedLenBytesSlice"}

\* Set of the integer, bool and string binders up to the assignment
PrimitiveParse(kind, s) ==
    CASE kind \in {"uint8", "uint16"} -> ParseUint(s, IF kind = "uint8" THEN 8 ELSE 16)
      [] kind \in {"int8", "int16"} -> ParseInt(s, IF kind = "int8" THEN 8 ELSE 16)
      [] kind \in {"bool", "Switch"} -> ParseBool(s)
      [] OTHER -> [v |-> s, err |-> NoErr]

\* Set of the slice and hex binders up to the assignment
CompositeParse(val, s) ==
    CASE val.kind \in {"uint16Slice", "boolSlice"} -> ParseEach(val.kind, Split(s, ","), 0)
      [] val.kind = "stringSlice" -> readAsCSV(s)
      [] val.kind = "bytes" -> BytesHexParse(s)
      [] val.kind = "fixedLenBytes" -> FixedLenParse(s, val.ExpectedLength)
      [] val.kind = "fixedLenBytesSlice" ->
            ParseEach(val.kind, FixedLenElems(ToLower(TrimSpace(s))), val.ExpectedLength)

\* *i = v; return err
Stored(val, m, r) == [mem |-> [m EXCEPT ![val.addr] = r.v], err |-> r.err]

\* if err != nil { return err }; *s = out; return nil
StoredUnlessErr(val, m, r) ==
    IF r.err.kind # "nil" THEN [mem |-> m, err |-> r.err] ELSE Stored(val, m, r)

\* Value.Set(s) of the binder val = [kind, addr]: the new heap and the error.
\* The integer and bool binders store the parsed v before they return err.
ValueSet(val, s, m) ==
    IF val.kind \in CompositeKinds
    THEN StoredUnlessErr(val, m, CompositeParse(val, s))
    ELSE Stored(val, m, PrimitiveParse(val.kind, s))

\* Value.String() of the binder
ValueString(val, m) ==
    CASE val.kind \in {"uint8", "uint16"} -> FormatUint(m[val.addr])
      [] val.kind \in {"int8", "int16"} -> FormatInt(m[val.addr])
      [] val.kind \in {"bool", "Switch"} ->
            IF m[val.addr] THEN <<"t","r","u","e">> ELSE <<"f","a","l","s","e">>
      [] OTHER -> m[val.addr]

\* whether the binder implements ImplicitValue: none of the built-in binders
\* does, a caller's type may
IsImplicitValue(val) == val.kind \in CustomKinds

\* a binder that carries the length of the byte array it fills
FixedLenValue(kind, addr, n) ==
    [value |-> [kind |-> kind, addr |-> addr, ExpectedLength |-> n], err |-> NoErr]

\* FlagValue, case reflect.Slice: the binder by the element type
SliceFlagValue(elemTyp, addr) ==
    CASE elemTyp.Kind = "array" ->
            IF elemTyp.Elem.Kind = "uint8"
            THEN FixedLenValue("fixedLenBytesSlice", addr, elemTyp.Len)
            ELSE [value |-> [kind |-> "nil", addr |-> addr],
                  err |-> Errorf("unrecognized element type of array-element slice",
                                 elemTyp.Elem.Kind)]
      [] elemTyp.Kind = "uint8" -> [value |-> [kind |-> "bytes", addr |-> addr], err |-> NoErr]
      [] elemTyp.Kind = "uint16" ->
            [value |-> [kind |-> "uint16Slice", addr |-> addr], err |-> NoErr]
      [] elemTyp.Kind = "string" ->
            [value |-> [kind |-> "stringSlice", addr |-> addr], err |-> NoErr]
      [] elemTyp.Kind = "bool" ->
            [value |-> [kind |-> "boolSlice", addr |-> addr], err |-> NoErr]
      [] OTHER -> [value |-> [kind |-> "nil", addr |-> addr],
                   err |-> Errorf("unrecognized slice element type", elemTyp.Kind)]

\* FlagValue, case reflect.Array: a fixed number of bytes, or an error
ArrayFlagValue(typ, addr) ==
    IF typ.Elem.Kind = "uint8"
    THEN FixedLenValue("fixedLenBytes", addr, typ.Len)
    ELSE [value |-> [kind |-> "nil", addr |-> addr],
          err |-> Errorf("unrecognized array element type", typ.Elem.Kind)]

\* FlagValue(typ, val): the binder for the field at addr, or an error.  A
\* pointer to a type whose pointer implements flag.Value is itself the binder
\* (typ.Implements comes first); any other pointer is followed (after the
\* allocation of AllocFlagPtr).
RECURSIVE FlagValue(_, _)
FlagValue(typ, addr) ==
    IF typ.Kind \in CustomKinds \cup BoundKinds
    THEN [value |-> [kind |-> typ.Kind, addr |-> addr], err |-> NoErr]
    ELSE IF typ.Kind = "ptr" /\ typ.Elem.Kind \in CustomKinds
    THEN [value |-> [kind |-> typ.Elem.Kind, addr |-> addr], err |-> NoErr]
    ELSE IF typ.Kind = "slice" THEN SliceFlagValue(typ.Elem, addr)
    ELSE IF typ.Kind = "array" THEN ArrayFlagValue(typ, addr)
    ELSE IF typ.Kind = "ptr" THEN FlagValue(typ.Elem, addr)
    ELSE [value |-> [kind |-> "nil", addr |-> addr],
          err |-> Errorf("unrecognized type", typ.Kind)]

-----------------------------------------------------------------------------
(* The structural loader *)

\* f.Tag.Lookup("ask")
getAsk(f) ==
    IF "ask" \in DOMAIN f.Tag THEN [v |-> f.Tag.ask, ok |-> TRUE] ELSE [v |-> <<>>, ok |-> FALSE]

\* f.Tag.Lookup("changed")
getChanged(f) ==
    IF "changed" \in DOMAIN f.Tag THEN [v |-> f.Tag.changed, ok |-> TRUE]
    ELSE [v |-> <<>>, ok |-> FALSE]

\* string(shorthand) of a byte
ByteString(b) == IF b = 0 THEN <<"NUL">> ELSE <<CHOOSE c \in DOMAIN Ascii : Ascii[c] = b>>

\* one pass of LoadField's loop over strings.Split(v, " "), for the part k:
\* d holds name, shorthand, isArg, required and the error returned, if any
LoadFieldPart(k, v, fname, d) ==
    IF k = <<>> THEN d
    ELSE IF d.name # <<>>
    THEN [d EXCEPT !.err = Errorf("cannot have different flag/arg declarations", fname)]
    ELSE IF HasPrefix(k, <<"-","-">>)
    THEN IF Len(k) < 3
         THEN [d EXCEPT !.err = Errorf("long flag must have at least 1 char name", fname)]
         ELSE [d EXCEPT !.name = From(k, 2)]
    ELSE IF HasPrefix(k, <<"-">>)
    THEN IF d.shorthand # 0
         THEN [d EXCEPT !.err = Errorf("cannot have two different short-flag style declarations", fname)]
         ELSE IF Len(k) = 2
         THEN [d EXCEPT !.err = Errorf("short flag must have a 1 char short name", fname)]
         ELSE [d EXCEPT !.shorthand = Ascii[k[2]]]
    ELSE IF Len(v) < 3
    THEN [d EXCEPT !.err = Errorf("positional arg must have at least 1 char name", fname)]
    ELSE IF HasPrefix(v, <<"<">>) /\ HasSuffix(v, <<">">>)
    THEN [d EXCEPT !.name = Slice(v, 1, Len(v) - 1), !.isArg = TRUE, !.required = TRUE]
    ELSE IF HasPrefix(v, <<"[">>) /\ HasSuffix(v, <<"]">>)
    THEN [d EXCEPT !.name = Slice(v, 1, Len(v) - 1), !.isArg = TRUE]
    ELSE [d EXCEPT !.err = Errorf("invalid Ask arg/flag declaration", fname)]

\* LoadField's loop over the parts ks, from part i on; it returns at the first error
RECURSIVE LoadFieldDecl(_, _, _, _, _)
LoadFieldDecl(ks, i, v, fname, d) ==
    IF i > Len(ks) \/ d.err.kind # "nil" THEN d
    ELSE LoadFieldDecl(ks, i + 1, v, fname, LoadFieldPart(ks[i], v, fname, d))

\* the Flag LoadField returns for the binder fv and the parsed declaration d
NewFlag(f, fv, d, m) ==
    IF fv.err.kind # "nil"
    THEN [fl |-> "nil", err |-> Errorf("failed to handle value type of field", f.Name)]
    ELSE IF d.err.kind # "nil" THEN [fl |-> "nil", err |-> d.err]
    \* value.String() of a binder that is a nil pointer
    ELSE IF IsNil(fv.value.addr, m) THEN [fl |-> "nil", err |-> PanicErr]
    ELSE [fl |-> [Value |-> fv.value,
                  \* use shorthand as name if name is missing
                  Name |-> IF d.shorthand # 0 /\ d.name = <<>>
                           THEN ByteString(d.shorthand) ELSE d.name,
                  Shorthand |-> d.shorthand,
                  IsArg |-> d.isArg,
                  Help |-> IF "help" \in DOMAIN f.Tag THEN f.Tag.help ELSE "",
                  Default |-> ValueString(fv.value, m),
                  Required |-> d.required,
                  Deprecated |-> IF "deprecated" \in DOMAIN f.Tag THEN f.Tag.deprecated ELSE "",
                  Hidden |-> "hidden" \in DOMAIN f.Tag],
          err |-> NoErr]

\* LoadField(f, val): the Flag of a tagged field at addr, or an error
LoadField(f, addr, m) ==
    NewFlag(f, FlagValue(f.Type, addr),
            LoadFieldDecl(Split(f.Tag.ask, " "), 1, f.Tag.ask, f.Name,
                [name |-> <<>>, shorthand |-> 0, isArg |-> FALSE, required |-> FALSE, err |-> NoErr]),
            m)

\* an entry of the call history
Ev(op, path, value) == [op |-> op, path |-> path, value |-> value]

\* changes[k] = append(changes[k], ptr) on the ChangedMarkers map
MapAppend(changes, k, ptr) ==
    IF k \in DOMAIN changes THEN [changes EXCEPT ![k] = Append(@, ptr)]
    ELSE changes @@ (k :> <<ptr>>)

NoHelp == [set |-> FALSE, text |-> ""]

\* val.Interface().(Help) of a value whose type implements Help
MethodHelp(typ) == [set |-> TRUE, text |-> "Help()"]

\* InlineHelp(h)
InlineHelp(h) == [set |-> TRUE, text |-> h]

\* v.Addr() of the field value at addr
AddrOf(typ, addr) == [Type |-> PtrTo(typ), Addr |-> addr, Nil |-> FALSE]

(* fillGroup(grp, val, changes): returns the group, the error and, in st,    *)
(* what the call has mutated in place: the ChangedMarkers map, the heap      *)
(* (Default() and allocation) and the call history.                         *)
RECURSIVE fillGroup(_, _, _), fillGroupField(_, _, _, _), fillGroupFields(_, _, _, _), LoadGroup(_, _, _),
          fillGroupElem(_, _, _)

\* fillGroup before its switch: the Help of the group and the Default() call
GroupWithHelp(grp, typ) ==
    IF ~grp.Help.set /\ Implements(typ, "Help") THEN [grp EXCEPT !.Help = MethodHelp(typ)] ELSE grp

CallDefault(val, st) ==
    IF Implements(val.Type, "InitDefault") /\ val.Nil
    THEN [st EXCEPT !.log = Append(st.log, Ev("Default", <<val.Type.Elem.Name>>, <<"nil">>))]
    ELSE IF Implements(val.Type, "InitDefault")
    THEN [st EXCEPT !.mem = Default(val.Type.Elem.Name, val.Addr, st.mem),
                    !.log = Append(st.log, Ev("Default", <<val.Type.Elem.Name>>, <<>>))]
    ELSE st

\* every Default() of the structures writes a field of its receiver: on a nil
\* receiver it panics
DefaultPanics(val) == Implements(val.Type, "InitDefault") /\ val.Nil

\* val.Elem() of a pointer: the value it points to, itself nil when it is a
\* pointer that was not allocated
Elem(val, m) ==
    [Type |-> val.Type.Elem, Addr |-> val.Addr,
     Nil |-> val.Type.Elem.Kind = "ptr" /\ IsNil(val.Addr, m)]

\* return fillGroup(grp, val.Elem(), changes)
fillGroupElem(grp, val, st) == fillGroup(grp, Elem(val, st.mem), st)

\* LoadField's FlagValue allocates a nil pointer that it follows
AllocFlagPtr(typ, addr, st) ==
    IF typ.Kind = "ptr" /\ typ.Elem.Kind \notin CustomKinds /\ IsNil(addr, st.mem)
    THEN [st EXCEPT !.mem = ZeroMem(typ.Elem, addr) @@ @]
    ELSE st

\* case reflect.Ptr: if val.IsNil() { val.Set(reflect.New(val.Type().Elem())) }
AllocIfNil(val, st) ==
    IF val.Nil THEN [st EXCEPT !.mem = ZeroMem(val.Type.Elem, val.Addr) @@ st.mem] ELSE st

\* fillGroup that calls Default() after the fields of the structure were loaded
DefaultAfterFields(val, r) == [r EXCEPT !.st = CallDefault(val, r.st)]

fillGroupDefaultLast(grp, val, st) ==
    CASE val.Type.Kind = "struct" -> fillGroupFields(GroupWithHelp(grp, val.Type), val, st, 1)
      [] val.Type.Kind = "ptr" ->
            DefaultAfterFields(val,
                fillGroup(GroupWithHelp(grp, val.Type),
                          [Type |-> val.Type.Elem, Addr |-> val.Addr, Nil |-> FALSE],
                          AllocIfNil(val, st)))
      [] OTHER -> [grp |-> GroupWithHelp(grp, val.Type), st |-> st,
                   err |-> Errorf("is not a valid group of flags", val.Type.Kind)]

fillGroup(grp, val, st) ==
    CASE val.Type.Kind = "struct" ->
            fillGroupFields(GroupWithHelp(grp, val.Type), val, CallDefault(val, st), 1)
      [] val.Type.Kind = "ptr" ->
            IF DefaultPanics(val)
            THEN [grp |-> GroupWithHelp(grp, val.Type), st |-> CallDefault(val, st),
                  err |-> PanicErr]
            ELSE fillGroupElem(GroupWithHelp(grp, val.Type), val,
                               AllocIfNil(val, CallDefault(val, st)))
      [] OTHER -> [grp |-> GroupWithHelp(grp, val.Type), st |-> CallDefault(val, st),
                   err |-> Errorf("is not a valid group of flags", val.Type.Kind)]

\* a `changed:"path"` field: register its address, which must be a *bool
ChangedField(grp, f, addr, st) ==
    IF f.Type.Kind = "bool"
    THEN [grp |-> grp, st |-> [st EXCEPT !.changes = MapAppend(st.changes, f.Tag.changed, addr)],
          err |-> NoErr]
    ELSE [grp |-> grp, st |-> st, err |-> Errorf("changed flag field is not a bool", f.Name)]

\* tag ".": r is what fillGroup returned for the squashed field
SquashedField(r) ==
    IF r.err.kind \notin {"nil", PanicErr.kind}
    THEN [r EXCEPT !.err = Errorf("failed to load squashed flag group into group", r.err)]
    ELSE r

\* tag ".name": r is what LoadGroup returned for the sub-group
SubGroupField(grp, f, r) ==
    IF r.err.kind # "nil" THEN [grp |-> grp, st |-> r.st, err |-> r.err]
    ELSE [grp |-> [grp EXCEPT !.Entries =
                      Append(@, IF "help" \in DOMAIN f.Tag
                                THEN [r.grp EXCEPT !.Help = InlineHelp(f.Tag.help)] ELSE r.grp)],
          st |-> r.st, err |-> NoErr]

\* any other tag: r is what LoadField returned; a panic is not a returned error
FlagField(grp, st, r) ==
    IF r.err.kind # "nil" THEN [grp |-> grp, st |-> st, err |-> r.err]
    ELSE [grp |-> [grp EXCEPT !.Flags = Append(@, r.fl)], st |-> st, err |-> NoErr]

\* the flag of field f at addr, on the heap in which its pointer was allocated
LoadFlagField(grp, f, addr, st) == FlagField(grp, st, LoadField(f, addr, st.mem))

\* the body of fillGroup's loop for field f of the struct val
fillGroupField(grp, val, st, f) ==
    IF getChanged(f).ok THEN ChangedField(grp, f, Append(val.Addr, f.Name), st)
    ELSE IF ~getAsk(f).ok \/ f.Tag.ask = <<"-">> THEN [grp |-> grp, st |-> st, err |-> NoErr]
    ELSE IF f.Tag.ask = <<".">>
    THEN SquashedField(fillGroup(grp, AddrOf(f.Type, Append(val.Addr, f.Name)), st))
    ELSE IF HasPrefix(f.Tag.ask, <<".">>)
    THEN SubGroupField(grp, f,
             LoadGroup(From(f.Tag.ask, 1), AddrOf(f.Type, Append(val.Addr, f.Name)), st))
    ELSE LoadFlagField(grp, f, Append(val.Addr, f.Name),
                       AllocFlagPtr(f.Type, Append(val.Addr, f.Name), st))

\* the loop goes on with field i + 1 unless field i returned an error
NextField(val, i, r) ==
    IF r.err.kind # "nil" THEN r ELSE fillGroupFields(r.grp, val, r.st, i + 1)

\* the loop of fillGroup over the fields of a struct, from field i on
fillGroupFields(grp, val, st, i) ==
    IF i > Len(StructFields(val.Type.Name)) THEN [grp |-> grp, st |-> st, err |-> NoErr]
    ELSE NextField(val, i, fillGroupField(grp, val, st, StructFields(val.Type.Name)[i]))

LoadGroup(name, val, st) ==
    fillGroup([GroupName |-> name,
               Help |-> IF Implements(val.Type, "Help") THEN MethodHelp(val.Type) ELSE NoHelp,
               Entries |-> <<>>,
               Flags |-> <<>>],
              val, st)

\* the zero FlagGroup embedded in a new CommandDescription
EmptyGroup == [GroupName |-> <<>>, Help |-> NoHelp, Entries |-> <<>>, Flags |-> <<>>]

\* &CommandDescription{ChangedMarkers: make(map[string][]*bool)}
NewDescr ==
    [nil |-> FALSE, FlagGroup |-> EmptyGroup, ChangedMarkers |-> <<>>,
     Command |-> "nil", CommandRoute |-> "nil"]

\* a nil *CommandDescription
NilDescr ==
    [nil |-> TRUE, FlagGroup |-> EmptyGroup, ChangedMarkers |-> <<>>,
     Command |-> "nil", CommandRoute |-> "nil"]

\* descr.Command and descr.CommandRoute are taken from val when not set yet
WithCapabilities(d, typ) ==
    [d EXCEPT !.Command = IF @ = "nil" /\ Implements(typ, "Command") THEN typ.Elem.Name ELSE @,
              !.CommandRoute = IF @ = "nil" /\ Implements(typ, "CommandRoute")
                               THEN typ.Elem.Name ELSE @]

\* the end of LoadReflect: r is what LoadGroup returned; the map was filled in place
LoadReflectEnd(d, r) ==
    [descr |-> IF r.err.kind # "nil"
               THEN [d EXCEPT !.ChangedMarkers = r.st.changes]
               ELSE [d EXCEPT !.ChangedMarkers = r.st.changes, !.FlagGroup = r.grp],
     mem |-> r.st.mem, log |-> r.st.log, err |-> r.err]

\* descr.LoadReflect(val): the description after the call, the heap, the history, the error
LoadReflect(d, val, m, lg) ==
    LoadReflectEnd(WithCapabilities(d, val.Type),
                   LoadGroup(<<>>, val,
                       [changes |-> d.ChangedMarkers, mem |-> m, log |-> lg]))

\* Load(val) of a pointer to a fresh struct of type name
Load(name, m, lg) ==
    LoadReflect(NewDescr, [Type |-> PtrTo(StructT(name)), Addr |-> <<name>>, Nil |-> FALSE],
                ZeroMem(StructT(name), <<name>>) @@ m, lg)

\* GroupPath without the name of the group
GroupPathFlat(g, prefix) == prefix

\* g.path(prefix)
GroupPath(g, prefix) ==
    IF g.GroupName # <<>>
    THEN IF prefix = <<>> THEN g.GroupName ELSE Dot(prefix, g.GroupName)
    ELSE prefix

\* g.all(out, prefix): the flags of the group, then those of its sub-groups, depth-first
RECURSIVE GroupAll(_, _), EntriesAll(_, _, _)
GroupAll(g, prefix) ==
    LET path == GroupPath(g, prefix)
    IN  [i \in 1..Len(g.Flags) |->
            [Path |-> IF path # <<>> THEN Dot(path, g.Flags[i].Name) ELSE g.Flags[i].Name,
             Flag |-> g.Flags[i]]]
        \o EntriesAll(g.Entries, path, 1)

EntriesAll(entries, path, i) ==
    IF i > Len(entries) THEN <<>>
    ELSE GroupAll(entries[i], path) \o EntriesAll(entries, path, i + 1)

\* g.All(prefix)
All(g, prefix) == GroupAll(g, prefix)

\* the loops of Usage over all that write the positionals into the header
RECURSIVE UsageSlots(_, _, _, _)
UsageSlots(all, required, open, close) ==
    IF all = <<>> THEN <<>>
    ELSE (IF all[1].Flag.IsArg /\ all[1].Flag.Required = required
          THEN <<" ", open>> \o all[1].Path \o <<close>> ELSE <<>>)
             \o UsageSlots(Tail(all), required, open, close)

\* Usage, the header up to the count of the flags: "(command)", the required
\* positionals as <path>, then the optional ones as [path]
UsageHeader(d) ==
    <<"(","c","o","m","m","a","n","d",")">>
        \o UsageSlots(All(d.FlagGroup, <<>>), TRUE, "<", ">")
        \o UsageSlots(All(d.FlagGroup, <<>>), FALSE, "[", "]")

-----------------------------------------------------------------------------
(* The set closure of Execute and the tokenizer.  st = [seen, mem, log] is   *)
(* what the closure mutates; d is descr and o is opts of the Execute call.   *)

\* MarkChanged that writes through the first registered pointer only
MarkChangedFirstOnly(d, path, m) ==
    IF path \in DOMAIN d.ChangedMarkers
    THEN [m EXCEPT ![d.ChangedMarkers[path][1]] = TRUE]
    ELSE m

\* for _, ptr := range descr.ChangedMarkers[fl.Path] { *ptr = true }
MarkChanged(d, path, m) ==
    IF path \in DOMAIN d.ChangedMarkers
    THEN LET ptrs == {d.ChangedMarkers[path][i] : i \in 1..Len(d.ChangedMarkers[path])}
         IN  [a \in DOMAIN m |-> IF a \in ptrs THEN TRUE ELSE m[a]]
    ELSE m

\* the set closure up to the deprecation check: seen and the change markers
MarkSeen(fl, d, st) ==
    [st EXCEPT !.seen = @ \cup {fl.Path}, !.mem = MarkChanged(d, fl.Path, @)]

\* CallsOnDeprecated without the test of fl.Deprecated
CallsOnDeprecatedAlways(fl, o) == o # "nil"

\* if fl.Deprecated != "" && opts.OnDeprecated != nil
CallsOnDeprecated(fl, o) == fl.Flag.Deprecated # "" /\ o # "nil"

\* the call of opts.OnDeprecated(fl), when it is made
NotifyDeprecated(fl, value, o, st) ==
    IF CallsOnDeprecated(fl, o)
    THEN [st EXCEPT !.log = Append(@, Ev("OnDeprecated", fl.Path, value))]
    ELSE st

\* return fl.Flag.Value.Set(value): r is what Set did and returned
ValueWasSet(fl, value, st, r) ==
    [st |-> [st EXCEPT !.mem = r.mem, !.log = Append(@, Ev("Set", fl.Path, value))],
     err |-> r.err]

\* the set closure from the deprecation check on
SetUnlessRejected(fl, value, o, st) ==
    IF CallsOnDeprecated(fl, o) /\ o = "reject"
    THEN [st |-> st, err |-> [kind |-> "rejected by OnDeprecated"]]
    ELSE ValueWasSet(fl, value, st, ValueSet(fl.Flag.Value, value, st.mem))

\* set := func(fl PrefixedFlag, value string) error
ApplySet(fl, value, d, o, st) ==
    SetUnlessRejected(fl, value, o, NotifyDeprecated(fl, value, o, MarkSeen(fl, d, st)))

\* fl.Value.(ImplicitValue).Implicit()
Implicit(fl) == <<"t","r","u","e">>

\* ParseLongArg after fn(fl, value): r is what fn returned
LongApplied(name, value, nextArgs, r) ==
    IF r.err.kind # "nil"
    THEN [nextArgs |-> nextArgs, st |-> r.st,
          err |-> Errorf("failed to apply flag", <<name, value, r.err>>)]
    ELSE [nextArgs |-> nextArgs, st |-> r.st, err |-> NoErr]

\* ParseLongArg from `fl := sortedFlags[flagIndex]` on
LongValue(fl, firstArg, split, as, d, o, st) ==
    IF Len(split) = 2
    THEN \* '--flag=arg'
         LongApplied(split[1], split[2], as, ApplySet(fl, split[2], d, o, st))
    ELSE IF IsImplicitValue(fl.Flag.Value)
    THEN \* '--flag' (arg was optional)
         LongApplied(split[1], Implicit(fl), as, ApplySet(fl, Implicit(fl), d, o, st))
    ELSE IF Len(as) > 0
    THEN \* '--flag arg'
         LongApplied(split[1], as[1], Tail(as), ApplySet(fl, as[1], d, o, st))
    ELSE \* '--flag' (arg was required)
         [nextArgs |-> as, st |-> st, err |-> Errorf("flag needs an argument", firstArg)]

\* ParseLongArg from the search on: flagIndex is what sort.Search returned
LongFound(sortedFlags, flagIndex, firstArg, split, as, d, o, st) ==
    IF flagIndex = Len(sortedFlags) \/ sortedFlags[flagIndex + 1].Path # split[1]
    THEN IF split[1] = <<"h","e","l","p">>
         THEN [nextArgs |-> as, st |-> st, err |-> HelpErr]
         ELSE [nextArgs |-> as, st |-> st, err |-> Errorf("unrecognized flag", split[1])]
    ELSE LongValue(sortedFlags[flagIndex + 1], firstArg, split, as, d, o, st)

\* sort.Search(len(sortedFlags), func(i) { return sortedFlags[i].Path >= name })
SearchLong(sortedFlags, name) ==
    Search(Len(sortedFlags),
           [i \in 0..(Len(sortedFlags) - 1) |-> ~StrLess(sortedFlags[i + 1].Path, name)])

\* ParseLongArg from the split of the name at "=" on
LongNamed(sortedFlags, firstArg, split, as, d, o, st) ==
    LongFound(sortedFlags, SearchLong(sortedFlags, split[1]), firstArg, split, as, d, o, st)

\* ParseLongArg(sortedFlags, firstArg, args, fn)
ParseLongArg(sortedFlags, firstArg, as, d, o, st) ==
    IF Len(firstArg) < 2
    THEN [nextArgs |-> <<>>, st |-> st, err |-> Errorf("long-format flag to short", firstArg)]
    ELSE IF Len(firstArg) = 2 \/ firstArg[3] = "-" \/ firstArg[3] = "="
    THEN [nextArgs |-> <<>>, st |-> st, err |-> Errorf("bad flag syntax", firstArg)]
    ELSE LongNamed(sortedFlags, firstArg, SplitN2(From(firstArg, 2), "="), as, d, o, st)

\* what parseSingleShortArg returns with an error
ShortFailed(st, err) ==
    [remainingShorthands |-> <<>>, nextArgs |-> <<>>, st |-> st, err |-> err]

\* parseSingleShortArg after fn(fl, value): r is what fn returned
ShortApplied(shorthands, value, remainingShorthands, nextArgs, r) ==
    IF r.err.kind # "nil"
    THEN ShortFailed(r.st, Errorf("failed to apply flag", <<<<shorthands[1]>>, value>>))
    ELSE [remainingShorthands |-> remainingShorthands, nextArgs |-> nextArgs,
          st |-> r.st, err |-> NoErr]

\* parseSingleShortArg from `fl := sortedFlags[flagIndex]` on
ShortValue(fl, shorthands, as, d, o, st) ==
    IF Len(shorthands) > 2 /\ shorthands[2] = "="
    THEN \* '-f=arg'
         ShortApplied(shorthands, From(shorthands, 2), <<>>, as,
                      ApplySet(fl, From(shorthands, 2), d, o, st))
    ELSE IF IsImplicitValue(fl.Flag.Value)
    THEN \* '-f' (arg was optional)
         ShortApplied(shorthands, Implicit(fl), From(shorthands, 1), as,
                      ApplySet(fl, Implicit(fl), d, o, st))
    ELSE IF Len(shorthands) > 1
    THEN \* '-farg'
         ShortApplied(shorthands, From(shorthands, 1), <<>>, as,
                      ApplySet(fl, From(shorthands, 1), d, o, st))
    ELSE IF Len(as) > 0
    THEN \* '-f arg'
         ShortApplied(shorthands, as[1], From(shorthands, 1), Tail(as),
                      ApplySet(fl, as[1], d, o, st))
    ELSE \* '-f' (arg was required)
         ShortFailed(st, Errorf("flag needs an argument", <<<<shorthands[1]>>, shorthands>>))

\* sort.Search(len(sortedFlags), func(i) { return sortedFlags[i].Shorthand < c })
SearchShort(sortedFlags, c) ==
    Search(Len(sortedFlags),
           [i \in 0..(Len(sortedFlags) - 1) |-> sortedFlags[i + 1].Flag.Shorthand < c])

\* parseSingleShortArg from the search on: flagIndex is what sort.Search returned
ShortFound(sortedFlags, flagIndex, shorthands, as, d, o, st) ==
    IF flagIndex = Len(sortedFlags)
    THEN IF shorthands[1] = "h"
         THEN ShortFailed(st, HelpErr)
         ELSE ShortFailed(st, Errorf("unknown shorthand flag", <<<<shorthands[1]>>, shorthands>>))
    ELSE ShortValue(sortedFlags[flagIndex + 1], shorthands, as, d, o, st)

\* parseSingleShortArg(sortedFlags, shorthands, args, fn)
parseSingleShortArg(sortedFlags, shorthands, as, d, o, st) ==
    IF Len(shorthands) = 0
    THEN ShortFailed(st, Errorf("no shorthand flags to parse", <<>>))
    ELSE ShortFound(sortedFlags, SearchShort(sortedFlags, Ascii[shorthands[1]]),
                    shorthands, as, d, o, st)

\* the loop of ParseShortArg: every iteration is handed the same args
RECURSIVE ParseShortLoop(_, _, _, _, _, _, _)

\* the loop after parseSingleShortArg returned r
ShortLoopNext(sortedFlags, as, d, o, r) ==
    IF r.err.kind # "nil" THEN [nextArgs |-> r.nextArgs, st |-> r.st, err |-> r.err]
    ELSE ParseShortLoop(sortedFlags, r.remainingShorthands, r.nextArgs, as, d, o, r.st)

ParseShortLoop(sortedFlags, shorthands, nextArgs, as, d, o, st) ==
    IF Len(shorthands) = 0 THEN [nextArgs |-> nextArgs, st |-> st, err |-> NoErr]
    ELSE ShortLoopNext(sortedFlags, as, d, o,
                       parseSingleShortArg(sortedFlags, shorthands, as, d, o, st))

\* ParseShortArg(sortedFlags, firstArg, args, fn)
ParseShortArg(sortedFlags, firstArg, as, d, o, st) ==
    IF Len(firstArg) = 0
    THEN [nextArgs |-> <<>>, st |-> st, err |-> Errorf("no shorthand flags to parse", <<>>)]
    ELSE ParseShortLoop(sortedFlags, From(firstArg, 1), as, as, d, o, st)

\* ParseArgs after ParseLongArg or ParseShortArg returned r
\* FlagParsed that loses the positional tokens collected so far
FlagParsedDropsRemaining(rem, r) ==
    [args |-> r.nextArgs, remaining |-> <<>>, st |-> r.st, err |-> r.err,
     stop |-> r.err.kind # "nil" \/ r.nextArgs = <<>>]

FlagParsed(rem, r) ==
    [args |-> r.nextArgs, remaining |-> rem, st |-> r.st, err |-> r.err,
     stop |-> r.err.kind # "nil" \/ r.nextArgs = <<>>]

(* One iteration of the loop of ParseArgs on the token list as (not empty):  *)
(* rem is remaining so far; stop tells that the loop is left (break, return  *)
(* on an error, or no token left).                                          *)
ParseArgsIter(sortedShort, sortedLong, as, rem, d, o, st) ==
    IF Len(as[1]) = 0 \/ as[1][1] # "-" \/ Len(as[1]) = 1
    THEN [args |-> Tail(as), remaining |-> Append(rem, as[1]), st |-> st, err |-> NoErr,
          stop |-> Tail(as) = <<>>]
    ELSE IF as[1][2] = "-"
    THEN IF Len(as[1]) = 2
         THEN \* "--" terminates the flags
              [args |-> Tail(as), remaining |-> rem \o Tail(as), st |-> st, err |-> NoErr,
               stop |-> TRUE]
         ELSE FlagParsed(rem, ParseLongArg(sortedLong, as[1], Tail(as), d, o, st))
    ELSE FlagParsed(rem, ParseShortArg(sortedShort, as[1], Tail(as), d, o, st))

-----------------------------------------------------------------------------
(* Execute *)

\* Execute's split of descr.FlagGroup.All("") into the four lists, long and short sorted
LongFlags(all) ==
    SortStableByPath(SelectSeq(all,
        LAMBDA pf : ~pf.Flag.IsArg /\ ByteString(pf.Flag.Shorthand) # pf.Flag.Name))

ShortFlags(all) ==
    SortStableByPath(SelectSeq(all, LAMBDA pf : ~pf.Flag.IsArg /\ pf.Flag.Shorthand # 0))

PositionalRequired(all) == SelectSeq(all, LAMBDA pf : pf.Flag.IsArg /\ pf.Flag.Required)

PositionalOptional(all) == SelectSeq(all, LAMBDA pf : pf.Flag.IsArg /\ ~pf.Flag.Required)

\* the positional slots whose path is not in seen
NotSeen(flags, sn) == SelectSeq(flags, LAMBDA pf : pf.Path \notin sn)

\* for i := range flags[1..n] { if err := set(flags[i], toks[i]); err != nil { return } }
RECURSIVE BindLoop(_, _, _, _, _, _, _)

\* the loop after set returned r for slot i
BindNext(flags, toks, i, n, d, o, r) ==
    IF r.err.kind # "nil" THEN r ELSE BindLoop(flags, toks, i + 1, n, d, o, r.st)

BindLoop(flags, toks, i, n, d, o, st) ==
    IF i > n THEN [st |-> st, err |-> NoErr]
    ELSE BindNext(flags, toks, i, n, d, o, ApplySet(flags[i], toks[i], d, o, st))

Min(a, b) == IF a < b THEN a ELSE b

\* OptionalBound without the re-slicing of remaining by count
OptionalBoundKeepsTokens(rem1, count, r2) ==
    [st |-> r2.st, remaining |-> rem1, err |-> r2.err]

\* after the loop over the optional slots returned r2: remaining = remaining[count:]
OptionalBound(rem1, count, r2) ==
    IF r2.err.kind # "nil" THEN [st |-> r2.st, remaining |-> rem1, err |-> r2.err]
    ELSE [st |-> r2.st, remaining |-> From(rem1, count), err |-> NoErr]

\* after the loop over the required slots returned r1: the optional slots
RequiredBound(opt, rem, rem1, d, o, r1) ==
    IF r1.err.kind # "nil" THEN [st |-> r1.st, remaining |-> rem, err |-> r1.err]
    ELSE OptionalBound(rem1, Min(Len(rem1), Len(opt)),
                       BindLoop(opt, rem1, 1, Min(Len(rem1), Len(opt)), d, o, r1.st))

\* the binding of the slots req and opt that are left to the tokens rem
BindSlots(req, opt, d, o, rem, st) ==
    IF Len(rem) < Len(req)
    THEN [st |-> st, remaining |-> rem,
          err |-> [kind |-> "missing required arguments", got |-> Len(rem),
                   expected |-> Len(req), paths |-> [i \in 1..Len(req) |-> req[i].Path]]]
    ELSE RequiredBound(opt, rem, From(rem, Len(req)), d, o,
                       BindLoop(req, rem, 1, Len(req), d, o, st))

\* Execute from the end of ParseArgs to before the dispatch: the positional binding
BindPositionals(d, o, rem, st) ==
    BindSlots(NotSeen(PositionalRequired(All(d.FlagGroup, <<>>)), st.seen),
              NotSeen(PositionalOptional(All(d.FlagGroup, <<>>)), st.seen),
              d, o, rem, st)

\* what Execute has not returned yet
NoResult == [returned |-> FALSE, final |-> NilDescr, err |-> NoErr]

\* return final, err
Returned(final, err) == [returned |-> TRUE, final |-> final, err |-> err]

\* IsHelp without the literal word help
IsHelpFlagsOnly(as) ==
    Len(as) > 0 /\ as[1] \in {<<"-","-","h","e","l","p">>, <<"-","h">>}

\* len(args) > 0 && (args[0] == "--help" || args[0] == "-h" || args[0] == "help")
IsHelp(as) ==
    Len(as) > 0 /\ as[1] \in {<<"-","-","h","e","l","p">>, <<"-","h">>, <<"h","e","l","p">>}

\* RouteFailed with the error of the route wrapped in a new one
RouteFailedWrapped(err) == Returned(NilDescr, Errorf("failed to route", err))

\* sub, err := descr.CommandRoute.Cmd(args[0]); if err != nil { return nil, err }
RouteFailed(err) == Returned(NilDescr, err)

\* subCmd, err := Load(sub); if err != nil { return nil, err }
SubLoadFailed(err) == Returned(NilDescr, err)

\* NothingToRun returning a nil error
NothingToRunIsFine(d) == Returned(d, NoErr)

\* return descr, UnrecognizedErr
NothingToRun(d) == Returned(d, UnrecognizedErr)

\* err := descr.Command.Run(ctx, remaining...); return descr, err
RunReturned(d, err) == Returned(d, err)

-----------------------------------------------------------------------------
(* The argument lists of the callers *)

\* the tokens tried on each root command
tokA == <<"a">>
tokB == <<"b">>
tok7 == <<"7">>
tokX == <<"x">>
tokHelpLong == <<"-","-","h","e","l","p">>
tokHelpShort == <<"-","h">>
tokHelpWord == <<"h","e","l","p">>
tokDashDash == <<"-","-">>
tokConnect == <<"c","o","n","n","e","c","t">>
tokBogus == <<"b","o","g","u","s">>
tokPortEq5 == <<"-","-","p","o","r","t","=","5">>
tokPort == <<"-","-","p","o","r","t">>
tokOldEqX == <<"-","-","o","l","d","=","x">>
tokIdEqB == <<"-","-","i","d","=","b">>
tokBogusFlag == <<"-","-","b","o","g","u","s">>
tokWsPortEq1 == <<"-","-","w","s",".","p","o","r","t","=","1">>
tokTcpPortEq2 == <<"-","-","t","c","p",".","p","o","r","t","=","2">>
tokWsPort == <<"-","-","w","s",".","p","o","r","t">>
tokLowEq5 == <<"-","-","l","o","w","=","5">>
tokLow == <<"-","-","l","o","w">>
tokHighEq10 == <<"-","-","h","i","g","h","=","1","0">>
tokL5 == <<"-","l","5">>
tokLEq5 == <<"-","l","=","5">>
tokL == <<"-","l">>
tokH10 == <<"-","h","1","0">>
tokZ5 == <<"-","z","5">>
tok5 == <<"5">>
tokB5 == <<"-","b","5">>
tokAbc == <<"-","a","b","c">>
tokAa == <<"-","-","a","a">>
tokC == <<"-","c">>
tokLevelEq5 == <<"-","-","i","n","n","e","r",".","l","e","v","e","l","=","5">>
tokNameEqB == <<"-","-","n","a","m","e","=","b">>
tokName == <<"-","-","n","a","m","e">>
tokCountEq5 == <<"-","-","c","o","u","n","t","=","5">>
tokDash == <<"-">>
tokEmpty == <<>>

Tokens(r) ==
    CASE r = "Connect" -> {tokA, tokB, tok7, tokPortEq5, tokPort, tokOldEqX, tokIdEqB,
                           tokHelpLong, tokHelpShort, tokHelpWord, tokDashDash, tokBogusFlag}
      [] r = "Peer" -> {tokConnect, tokBogus, tokHelpLong, tokHelpShort, tokHelpWord,
                        tokA, tokOldEqX}
      [] r = "NodeCmd" -> {tokWsPortEq1, tokTcpPortEq2, tokWsPort, tok7, tokPortEq5, tokX,
                           tokDashDash, tokDash, tokEmpty}
      [] r \in {"DupGroups", "DupInline", "DupFields"} -> {tokWsPortEq1, tokPortEq5, tokX}
      [] r = "RouteCmd" -> {tokConnect, tokA, tokPortEq5, tok7, tokNameEqB, tokName}
      [] r = "LowCmd" -> {tokLowEq5, tokHighEq10, tokX}
      [] r = "ShortCmd" -> {tokLowEq5, tokLow, tokHighEq10, tokL5, tokLEq5, tokL, tokH10,
                            tokZ5, tok5, tokX}
      [] r = "MixedCmd" -> {tokZ5, tokB5, tokX}
      [] r = "OrderCmd" -> {tokA, tokB, tok7}
      [] r = "SwitchCmd" -> {tokAbc, tokAa, tokC, tokX}
      [] r = "OuterCmd" -> {tokLevelEq5, tokX}
      [] r = "PtrCmd" -> {tokCountEq5, tokX}
      [] OTHER -> {}

\* the sequences over S of length at most n
SeqsUpTo(S, n) == UNION {[1..k -> S] : k \in 0..n}

\* the callback handed to Execute: none, one that accepts, one that rejects
Opts(r) == IF r \in {"Connect", "Peer"} THEN {"nil", "accept", "reject"} ELSE {"nil"}

-----------------------------------------------------------------------------
(* The state machine: a caller loads a root command and executes it once.   *)
(* pc: "load" (-> "loadMore", for a second value loaded into the same       *)
(* description) -> "execute" (once per routing level) -> "parse" (once per  *)
(* iteration of ParseArgs) -> "bind" -> "dispatch" -> "done"; a failed Load *)
(* ends in "loadFailed".                                                    *)

Init ==
    /\ pc = "load"
    /\ root \in Roots
    /\ argv \in SeqsUpTo(Tokens(root), MaxArgs)
    /\ args = argv
    /\ opts \in Opts(root)
    /\ descr = NilDescr
    /\ mem = <<>>
    /\ long = <<>>
    /\ short = <<>>
    /\ seen = {}
    /\ remaining = <<>>
    /\ level = 0
    /\ result = NoResult
    /\ log = <<>>

\* the caller takes over what Load returned in l
Loaded(l) ==
    /\ descr' = l.descr
    /\ mem' = l.mem
    /\ log' = l.log
    /\ pc' = IF l.err.kind # "nil" THEN "loadFailed"
             ELSE IF pc = "load" /\ MoreValues(root) # <<>> THEN "loadMore"
             ELSE "execute"
    /\ result' = IF l.err.kind # "nil" THEN [NoResult EXCEPT !.err = l.err] ELSE result

\* cmd, err := Load(&root)
LoadRoot ==
    /\ pc = "load"
    /\ Loaded(Load(root, mem, log))
    /\ UNCHANGED <<root, argv, args, opts, long, short, seen, remaining, level>>

\* err := cmd.Load(&more), with the description that Load(&root) returned
LoadMore ==
    /\ pc = "loadMore"
    /\ Loaded(LoadReflect(descr,
                          [Type |-> PtrTo(StructT(MoreValues(root)[1])),
                           Addr |-> <<MoreValues(root)[1]>>, Nil |-> FALSE],
                          ZeroMem(StructT(MoreValues(root)[1]), <<MoreValues(root)[1]>>) @@ mem,
                          log))
    /\ UNCHANGED <<root, argv, args, opts, long, short, seen, remaining, level>>

\* Execute returns on the help token, before anything else
ReturnHelp ==
    /\ pc' = "done"
    /\ result' = Returned(descr, HelpErr)
    /\ UNCHANGED <<args, descr, mem, long, short, level, log>>

\* Execute from the lists of flags to the call of ParseArgs
CollectFlags(all, lg) ==
    /\ pc' = IF args = <<>> THEN "bind" ELSE "parse"
    /\ long' = LongFlags(all)
    /\ short' = ShortFlags(all)
    /\ log' = lg
    /\ UNCHANGED <<args, descr, mem, level, result>>

\* SubLoaded that calls subCmd.Execute(ctx, opts, args...), the route included
SubLoadedKeepsToken(l) ==
    /\ mem' = l.mem
    /\ log' = l.log
    /\ pc' = IF l.err.kind # "nil" THEN "done" ELSE "execute"
    /\ result' = IF l.err.kind # "nil" THEN SubLoadFailed(l.err) ELSE result
    /\ descr' = IF l.err.kind # "nil" THEN descr ELSE l.descr
    /\ args' = args
    /\ level' = IF l.err.kind # "nil" THEN level ELSE level + 1
    /\ UNCHANGED <<long, short>>

\* Load(sub) returned l: Execute fails, or calls subCmd.Execute(ctx, opts, args[1:]...)
SubLoaded(l) ==
    /\ mem' = l.mem
    /\ log' = l.log
    /\ pc' = IF l.err.kind # "nil" THEN "done" ELSE "execute"
    /\ result' = IF l.err.kind # "nil" THEN SubLoadFailed(l.err) ELSE result
    /\ descr' = IF l.err.kind # "nil" THEN descr ELSE l.descr
    /\ args' = IF l.err.kind # "nil" THEN args ELSE Tail(args)
    /\ level' = IF l.err.kind # "nil" THEN level ELSE level + 1
    /\ UNCHANGED <<long, short>>

\* FallThrough that hands ParseArgs the tokens after the first, as for a route
FallThroughDropsToken(lg) ==
    /\ pc' = IF Tail(args) = <<>> THEN "bind" ELSE "parse"
    /\ args' = Tail(args)
    /\ long' = LongFlags(All(descr.FlagGroup, <<>>))
    /\ short' = ShortFlags(All(descr.FlagGroup, <<>>))
    /\ log' = lg
    /\ UNCHANGED <<descr, mem, level, result>>

\* Cmd returned nil, nil: Execute leaves the routing block with args as it was
FallThrough(lg) == CollectFlags(All(descr.FlagGroup, <<>>), lg)

\* descr.CommandRoute.Cmd(args[0]) returned c; lg is the history with that call
Routed(c, lg) ==
    IF c.err.kind # "nil"
    THEN /\ pc' = "done"
         /\ result' = RouteFailed(c.err)
         /\ log' = lg
         /\ UNCHANGED <<args, descr, mem, long, short, level>>
    ELSE IF c.sub # "nil"
    THEN SubLoaded(Load(c.sub, mem, lg))
    ELSE \* deal with it as regular command if it is not recognized as sub-command
         FallThrough(lg)

\* Execute from its entry to the call of ParseArgs, or to the recursive call
ExecuteEnter ==
    /\ pc = "execute"
    /\ IF IsHelp(args) THEN ReturnHelp
       ELSE IF descr.CommandRoute # "nil" /\ Len(args) > 0
       THEN Routed(Cmd(descr.CommandRoute, args[1]), Append(log, Ev("Cmd", args[1], <<>>)))
       ELSE CollectFlags(All(descr.FlagGroup, <<>>), log)
    /\ UNCHANGED <<root, argv, opts, seen, remaining>>

\* Proceed without the checks of err: Execute goes on after a failure
ProceedDespiteError(r, onward) ==
    /\ remaining' = r.remaining
    /\ seen' = r.st.seen
    /\ mem' = r.st.mem
    /\ log' = r.st.log
    /\ pc' = onward
    /\ result' = result

\* Execute takes over what ParseArgs or the positional binding returned in r
Proceed(r, onward) ==
    /\ remaining' = r.remaining
    /\ seen' = r.st.seen
    /\ mem' = r.st.mem
    /\ log' = r.st.log
    /\ pc' = IF r.err.kind # "nil" THEN "done" ELSE onward
    /\ result' = IF r.err.kind # "nil" THEN Returned(descr, r.err) ELSE result

\* ParseArgs goes round its loop, or returns to Execute
ParseArgsNext(r) ==
    /\ args' = r.args
    /\ Proceed(r, IF r.stop THEN "bind" ELSE "parse")

\* one iteration of the loop of ParseArgs
ParseArgsStep ==
    /\ pc = "parse"
    /\ ParseArgsNext(ParseArgsIter(short, long, args, remaining, descr, opts,
                                   [seen |-> seen, mem |-> mem, log |-> log]))
    /\ UNCHANGED <<root, argv, opts, descr, long, short, level>>

\* Execute after ParseArgs: the required and the optional positional slots
ExecuteBind ==
    /\ pc = "bind"
    /\ Proceed(BindPositionals(descr, opts, remaining,
                               [seen |-> seen, mem |-> mem, log |-> log]), "dispatch")
    /\ UNCHANGED <<root, argv, args, opts, descr, long, short, level>>

\* what a Run of a command may return
RunResults == {NoErr, [kind |-> "Run failed"]}

\* the end of Execute: Run of the command, or UnrecognizedErr
ExecuteDispatch ==
    /\ pc = "dispatch"
    /\ IF descr.Command # "nil"
       THEN \E e \in RunResults :
                /\ log' = Append(log, Ev("Run", <<descr.Command>>, remaining))
                /\ result' = RunReturned(descr, e)
       ELSE /\ result' = NothingToRun(descr)
            /\ log' = log
    /\ pc' = "done"
    /\ UNCHANGED <<root, argv, args, opts, descr, mem, long, short, seen, remaining, level>>

Next ==
    LoadRoot \/ LoadMore \/ ExecuteEnter \/ ParseArgsStep \/ ExecuteBind \/ ExecuteDispatch

Spec == Init /\ [][Next]_vars

\* Load has failed or Execute has returned
Finished == pc \in {"done", "loadFailed"}

\* Load and Execute are sequential code: as long as a step is left to take,
\* one is taken (Cmd, Run, Set and the callback return).  That is weak
\* fairness of every action: of the dispatch, and of the actions before it,
\* for which ENABLED is spelled out (one of them is enabled, by a step that
\* changes pc or args, in every state that is neither finished nor at the
\* dispatch).
FairSpec ==
    /\ Spec
    /\ WF_vars(ExecuteDispatch)
    /\ \/ []<>(Finished \/ pc = "dispatch")
       \/ []<><<LoadRoot \/ LoadMore \/ ExecuteEnter \/ ParseArgsStep \/ ExecuteBind>>_vars

-----------------------------------------------------------------------------
(* The binders on their own: a caller binds one field with FlagValue, calls *)
(* Set with a text, and renders the field with String and sets it again.   *)
(* root is the type of the field, argv the text, mem the field,            *)
(* remaining the rendered text, result.err what the last Set returned.     *)
(* pc: "value" -> "set" -> "rendered" -> "roundTrip".                      *)

\* the field types, by name
ValueType(name) ==
    CASE name = "uint16Slice" -> SliceOf(Leaf("uint16"))
      [] name = "boolSlice" -> SliceOf(Leaf("bool"))
      [] name = "stringSlice" -> SliceOf(Leaf("string"))
      [] name = "bytes" -> SliceOf(Leaf("uint8"))
      [] name = "bytes2" -> ArrayOf(2, Leaf("uint8"))
      [] name = "bytes2Slice" -> SliceOf(ArrayOf(2, Leaf("uint8")))
      [] OTHER -> Leaf(name)

IntegerTypes == {"uint8", "uint16", "int8", "int16"}
PrimitiveTypes == IntegerTypes \cup {"bool", "string"}
SliceTypes == {"uint16Slice", "boolSlice", "stringSlice", "bytes2Slice"}
ValueRoots == PrimitiveTypes \cup SliceTypes \cup {"bytes", "bytes2"}

\* the field of the value specification, and its binder
ValueAddr == <<"v">>
Binder == FlagValue(ValueType(root), ValueAddr).value

\* the numbers an integer type holds
MinOf(name) ==
    CASE name = "int8" -> 0 - 128 [] name = "int16" -> 0 - 32768 [] OTHER -> 0
MaxOf(name) ==
    CASE name = "uint8" -> 255 [] name = "int8" -> 127 [] name = "int16" -> 32767
      [] OTHER -> 65535

\* the numbers tried: all of small magnitude, and those around the ends of the
\* 16-bit ranges
Numbers ==
    ((0 - MaxNumeral)..MaxNumeral)
        \cup {0 - 32769, 0 - 32768, 0 - 32767, 9999, 10000, 32767, 32768, 65535, 65536, 70000}

\* the decimal numeral of n: an optional minus sign and the digits of |n|,
\* the first of them not 0 unless n is 0
RECURSIVE Digits(_)
Digits(n) ==
    IF n < 10 THEN << <<"0","1","2","3","4","5","6","7","8","9">>[n + 1] >>
    ELSE Digits(n \div 10) \o Digits(n % 10)

Numeral(n) == IF n < 0 THEN <<"-">> \o Digits(0 - n) ELSE Digits(n)

\* the texts handed to Set, by field type
Inputs(name) ==
    CASE name \in IntegerTypes ->
            {Numeral(n) : n \in Numbers}
                \cup {<<>>, <<"+","5">>, <<"0","1","0">>, <<"0","8">>, <<"0","x","1","0">>,
                      <<"1","x">>}
      [] name = "bool" ->
            {<<"t","r","u","e">>, <<"f","a","l","s","e">>, <<"1">>, <<"0">>, <<"x">>, <<>>}
      [] name = "string" -> {<<>>, <<"a">>, <<"a",",","b">>, <<" ","x">>}
      [] name = "uint16Slice" ->
            {<<>>, <<"1",",","2",",","3">>, <<"3",",","2",",","1">>, <<"7">>,
             <<"1",",","x",",","3">>, <<"1",",",",","3">>}
      [] name = "boolSlice" ->
            {<<>>, <<"1",",","0",",","1">>, <<"0",",","1",",","1">>,
             <<"t",",","f",",","t">>, <<"1",",","x",",","1">>}
      [] name = "stringSlice" ->
            {<<>>, <<"a",",","b",",","c">>, <<"c",",","b",",","a">>, <<"a">>, <<"a",",",",","c">>}
      [] name = "bytes2Slice" ->
            {<<>>, <<"a","1","b","2",",","0","0","0","1",",","f","f","f","f">>,
             <<"0","x","A","1","B","2",","," ","0","0","0","1"," ",",","0","x","f","f","f","f">>,
             <<"a","1",",","b","2",",","c","3">>, <<"a","1","b","2">>}
      [] OTHER ->
            {<<"0","x","A","1","B","2">>, <<"a","1","b","2">>, <<" ","A","1","B","2"," ">>,
             <<"A","1","B","2">>, <<"0","X","a","1","b","2">>, <<>>, <<"0","x">>,
             <<"a","1">>, <<"a","1","b">>, <<"a","1","b","2","c","3">>, <<"a","1","x","2">>}

\* the values a field holds when it is rendered without a Set before
Holds(name) ==
    CASE name \in IntegerTypes -> {n \in Numbers : MinOf(name) <= n /\ n <= MaxOf(name)}
      [] name = "bool" -> {TRUE, FALSE}
      [] name = "string" -> Inputs("string")
      [] OTHER -> {}

\* the values a field holds when Set is called with a text
Starts(name) ==
    CASE name \in IntegerTypes -> {0, 77}
      [] name = "bool" -> {FALSE, TRUE}
      [] name = "string" -> {<<>>, <<"z">>}
      [] name = "bytes2" -> {<<0, 0>>, <<239, 1>>}
      [] name = "bytes" -> {<<>>, <<239>>}
      [] name = "stringSlice" -> {<<>>, << <<"z">> >>}
      [] name = "boolSlice" -> {<<>>, <<TRUE>>}
      [] name = "uint16Slice" -> {<<>>, <<9>>}
      [] OTHER -> {<<>>, << <<239, 1>> >>}

ValueInit ==
    /\ pc = "value"
    /\ root \in ValueRoots
    /\ \/ argv = <<>> /\ mem \in {ValueAddr :> x : x \in Holds(root)}
       \/ argv \in {<<s>> : s \in Inputs(root)} /\ mem \in {ValueAddr :> x : x \in Starts(root)}
    /\ args = <<>>
    /\ opts = "nil"
    /\ descr = NilDescr
    /\ long = <<>>
    /\ short = <<>>
    /\ seen = {}
    /\ remaining = <<>>
    /\ level = 0
    /\ result = NoResult
    /\ log = <<>>

\* Set returned r: the field and the error
SetReturned(text, r) ==
    /\ mem' = r.mem
    /\ result' = [NoResult EXCEPT !.err = r.err]
    /\ log' = Append(log, Ev("Set", <<root>>, text))

\* err := value.Set(text)
ValueSetText ==
    /\ pc = "value" /\ argv # <<>>
    /\ SetReturned(argv[1], ValueSet(Binder, argv[1], mem))
    /\ pc' = "set"
    /\ UNCHANGED <<root, argv, args, opts, descr, long, short, seen, remaining, level>>

\* text := value.String(), of a primitive field, as it starts or after a Set
\* without error
ValueRender ==
    /\ root \in PrimitiveTypes
    /\ \/ pc = "value" /\ argv = <<>>
       \/ pc = "set" /\ result.err.kind = "nil"
    /\ remaining' = <<ValueString(Binder, mem)>>
    /\ log' = Append(log, Ev("String", <<root>>, ValueString(Binder, mem)))
    /\ pc' = "rendered"
    /\ UNCHANGED <<root, argv, args, opts, descr, mem, long, short, seen, level, result>>

\* err := value.Set(value.String())
ValueSetRendered ==
    /\ pc = "rendered"
    /\ SetReturned(remaining[1], ValueSet(Binder, remaining[1], mem))
    /\ pc' = "roundTrip"
    /\ UNCHANGED <<root, argv, args, opts, descr, long, short, seen, remaining, level>>

ValueNext == ValueSetText \/ ValueRender \/ ValueSetRendered

ValueSpec == ValueInit /\ [][ValueNext]_vars

-----------------------------------------------------------------------------
(* Properties.  They are stated over the argument list argv, the heap, the   *)
(* value Execute returned and the history of calls.                         *)

\* the positions of the history that hold a call of kind op
Events(op) == {i \in 1..Len(log) : log[i].op = op}

\* the flags and positionals of the current description, in the order of All
Declared == All(descr.FlagGroup, <<>>)

\* the paths of the positional slots of the current description
PositionalPaths == {Declared[i].Path : i \in {j \in 1..Len(Declared) : Declared[j].Flag.IsArg}}

\* the positions of argv that hold a flag token: after the route segments taken,
\* before the first "--", a token of the form -x... or --x...
FlagTokenPositions ==
    {i \in (level + 1)..Len(argv) :
        /\ Len(argv[i]) > 1 /\ argv[i][1] = "-" /\ argv[i] # <<"-","-">>
        /\ \A j \in (level + 1)..(i - 1) : argv[j] # <<"-","-">>}

\* the three spellings of a request for help
HelpSpellings == {<<"-","-","h","e","l","p">>, <<"-","h">>, <<"h","e","l","p">>}

\* a slot whose binder cannot fail and whose flag is not deprecated
BindsAnyToken(pf) == pf.Flag.Value.kind = "string" /\ pf.Flag.Deprecated = ""

\* C1, the step of the positional binding: with R the required and O the optional
\* slots not yet supplied and n tokens left, n < |R| ends Execute with the error
\* that names the paths of R and without Run; otherwise the first |R| tokens are
\* stored in the fields of R, the next k = min(n - |R|, |O|) in the fields of O,
\* the other optional fields keep their value, and the tokens after them are what
\* is left; Run is then called with exactly what is left.
PositionalStep ==
    /\ pc = "bind" =>
        LET R == NotSeen(PositionalRequired(Declared), seen)
            O == NotSeen(PositionalOptional(Declared), seen)
            n == Len(remaining)
            k == IF n - Len(R) < Len(O) THEN n - Len(R) ELSE Len(O)
        IN  IF n < Len(R)
            THEN /\ pc' = "done"
                 /\ result'.returned
                 /\ result'.err.kind = "missing required arguments"
                 /\ result'.err.paths = [i \in 1..Len(R) |-> R[i].Path]
                 /\ mem' = mem
                 /\ log' = log
            ELSE /\ (\A i \in 1..Len(R) : BindsAnyToken(R[i]))
                        /\ (\A j \in 1..Len(O) : BindsAnyToken(O[j]))
                    => pc' = "dispatch"
                 /\ pc' = "dispatch" =>
                        /\ \A i \in 1..Len(R) :
                              BindsAnyToken(R[i]) => mem'[R[i].Flag.Value.addr] = remaining[i]
                        /\ \A j \in 1..k :
                              BindsAnyToken(O[j]) =>
                                  mem'[O[j].Flag.Value.addr] = remaining[Len(R) + j]
                        /\ \A j \in (k + 1)..Len(O) :
                              mem'[O[j].Flag.Value.addr] = mem[O[j].Flag.Value.addr]
                        /\ remaining' = SubSeq(remaining, Len(R) + k + 1, n)
    /\ pc = "dispatch" /\ descr.Command # "nil" =>
        /\ Len(log') = Len(log) + 1
        /\ log'[Len(log')].op = "Run"
        /\ log'[Len(log')].value = remaining

\* C1, for <id> [more] of Connect and an argument list of plain tokens: none fails
\* naming id, one binds id only, two bind both, the tokens from the third on go to Run
IdMoreExample ==
    (pc = "done" /\ root = "Connect"
        /\ \A i \in 1..Len(argv) : argv[i] \in {<<"a">>, <<"b">>, <<"7">>}) =>
    IF Len(argv) = 0
    THEN /\ result.err.kind = "missing required arguments"
         /\ result.err.paths = <<<<"i","d">>>>
         /\ Events("Run") = {}
    ELSE /\ mem[<<"Connect","PeerID">>] = argv[1]
         /\ mem[<<"Connect","More">>] = IF Len(argv) = 1 THEN <<>> ELSE argv[2]
         /\ Events("Run") = {Len(log)}
         /\ log[Len(log)].value = SubSeq(argv, 3, Len(argv))

\* C1: positional accounting in Execute.  Fewer tokens than required slots is an
\* error naming the missing slots, without Run; otherwise the required slots take
\* the first tokens, the optional slots the next ones, and exactly the rest is
\* passed, in order, to Run.
C1_PositionalAccounting == [][PositionalStep]_vars /\ []IdMoreExample

\* C1: three tokens given to <id> [more]: both are bound, Run got the third
C1_Witness ==
    /\ pc = "done" /\ root = "Connect" /\ argv = <<<<"a">>, <<"b">>, <<"7">>>>
    /\ mem[<<"Connect","PeerID">>] = <<"a">>
    /\ mem[<<"Connect","More">>] = <<"b">>
    /\ log[Len(log)].op = "Run" /\ log[Len(log)].value = <<<<"7">>>>

\* C2, the step of Execute at any recursion level whose first token asks for help
HelpStep ==
    (pc = "execute" /\ args # <<>> /\ args[1] \in HelpSpellings) =>
        /\ pc' = "done"
        /\ result'.returned
        /\ result'.err = HelpErr
        /\ result'.final = descr
        /\ mem' = mem
        /\ seen' = seen
        /\ log' = log

\* C2, for connect --help on Peer: the description returned is the one of connect
ConnectHelpExample ==
    (pc = "done" /\ root = "Peer" /\ Len(argv) >= 2
        /\ argv[1] = <<"c","o","n","n","e","c","t">> /\ argv[2] \in HelpSpellings) =>
        /\ result.err = HelpErr
        /\ result.final.Command = "Connect"
        /\ result.final.CommandRoute = "nil"
        /\ Events("Cmd") = {1}
        /\ Events("Set") = {} /\ Events("Run") = {}

\* C2: at every recursion level of Execute a first token --help, -h or help makes
\* Execute return HelpErr with the description of that level, without a call of
\* CommandRoute.Cmd at that level, without a flag applied or a field changed, and
\* without Run.
C2_HelpAtEveryLevel == [][HelpStep]_vars /\ []ConnectHelpExample

\* C2: connect --help on Peer has returned HelpErr at the second level
C2_Witness ==
    /\ pc = "done" /\ root = "Peer" /\ level = 1
    /\ argv = <<<<"c","o","n","n","e","c","t">>, <<"-","-","h","e","l","p">>>>
    /\ result.err = HelpErr /\ result.final.Command = "Connect"

\* C3, the step of Execute whose first token the route rejects
RouteErrorStep ==
    (pc = "execute" /\ descr.CommandRoute # "nil" /\ args # <<>>
        /\ args[1] \notin HelpSpellings
        /\ Cmd(descr.CommandRoute, args[1]).err.kind # "nil") =>
        /\ pc' = "done"
        /\ result'.returned
        /\ result'.err = Cmd(descr.CommandRoute, args[1]).err
        /\ mem' = mem
        /\ seen' = seen
        /\ \A i \in 1..Len(log') : log'[i].op \notin {"Set", "OnDeprecated", "Run"}

\* C3, for bogus on Peer, which only knows connect
BogusExample ==
    (pc = "done" /\ root = "Peer" /\ argv # <<>> /\ argv[1] = <<"b","o","g","u","s">>) =>
        /\ result.err = UnrecognizedErr
        /\ mem = ZeroMem(StructT("Peer"), <<"Peer">>)
        /\ Events("Set") = {} /\ Events("Run") = {}

\* C3: when CommandRoute.Cmd returns an error for the first token, Execute returns
\* exactly that error; no flag is parsed, no field or change marker is modified,
\* and Run is not called at any level.
C3_RouteErrorUnchanged == [][RouteErrorStep]_vars /\ []BogusExample

\* C3: bogus, followed by a flag, has been rejected by the route of Peer
C3_Witness ==
    /\ pc = "done" /\ root = "Peer"
    /\ argv = <<<<"b","o","g","u","s">>, <<"-","-","o","l","d","=","x">>>>
    /\ result.returned /\ result.err = UnrecognizedErr /\ result.final.nil

\* the results with which Execute returns what Run returned
RunOutcomes == {"nil", "Run failed"}

\* C4: Command.Run is the last step of Execute and happens at most once per call:
\* on the description of the last route segment taken, after every flag token of
\* the argument list was applied and every required positional slot was bound,
\* and never when Execute ends with HelpErr, a routing error, a parse error or a
\* positional-binding error.
C4_RunLastAtMostOnce ==
    /\ Cardinality(Events("Run")) <= 1
    /\ \A i \in Events("Run") :
          /\ i = Len(log)
          /\ pc = "done" /\ result.returned /\ result.err.kind \in RunOutcomes
          /\ log[i].path = <<descr.Command>>
          /\ result.final = descr
          /\ level = Cardinality({j \in Events("Cmd") : Cmd(root, log[j].path).sub # "nil"})
          /\ root = "Peer" => descr.Command = "Connect"
          /\ Cardinality({j \in Events("Set") : log[j].path \notin PositionalPaths})
                = Cardinality(FlagTokenPositions)
          /\ \A k \in 1..Len(Declared) :
                Declared[k].Flag.IsArg /\ Declared[k].Flag.Required =>
                    \E j \in Events("Set") : j < i /\ log[j].path = Declared[k].Path
    /\ result.returned /\ result.err.kind \notin RunOutcomes => Events("Run") = {}

\* C4: Run was called at the second level, after a flag and the required slot
C4_Witness ==
    /\ pc = "done" /\ root = "Peer" /\ level = 1
    /\ Cardinality(FlagTokenPositions) = 1
    /\ Events("Run") = {Len(log)}
    /\ log[Len(log)].path = <<"Connect">>
    /\ \E j \in Events("Set") : log[j].path = <<"i","d">>

\* C5, the step of the dispatch
DispatchStep ==
    pc = "dispatch" =>
        /\ pc' = "done"
        /\ result'.returned
        /\ result'.final = descr
        /\ IF descr.Command # "nil"
           THEN /\ log' = Append(log, [op |-> "Run", path |-> <<descr.Command>>,
                                       value |-> remaining])
                /\ result'.err \in {[kind |-> "nil"], [kind |-> "Run failed"]}
           ELSE /\ log' = log
                /\ result'.err = UnrecognizedErr

\* C5, for a route-only command executed with an empty argument list
RouteOnlyExample ==
    (pc = "done" /\ root = "Peer" /\ argv = <<>>) =>
        /\ result.returned
        /\ result.err = UnrecognizedErr
        /\ ~result.final.nil
        /\ result.final.CommandRoute = "Peer"
        /\ Events("Run") = {}

\* C5: after flags and positionals were bound without error, Execute returns
\* exactly what Run returned, Run being called with the positional remainder, when
\* the description has a Command, and UnrecognizedErr with the description when it
\* has none, as for a route-only command executed with an empty argument list.
C5_DispatchOutcome == [][DispatchStep]_vars /\ []RouteOnlyExample

\* C5: Peer, which has a route and no Run, was executed without arguments
C5_Witness ==
    /\ pc = "done" /\ root = "Peer" /\ argv = <<>>
    /\ result.returned /\ result.err = UnrecognizedErr /\ result.final.CommandRoute = "Peer"

\* C6: Load fails whenever two flags or positionals of the loaded structure have
\* the same dotted path: no description that Load returned without error holds
\* two entries with equal path.
C6_DuplicatePathsFailAtLoad ==
    pc \notin {"load", "loadFailed"} =>
        \A i, j \in 1..Len(Declared) : i # j => Declared[i].Path # Declared[j].Path

\* C7, the paths Load yields for the groups .ws and .tcp of NodeCmd
NodeCmdPaths ==
    (pc \notin {"load", "loadFailed"} /\ root = "NodeCmd") =>
        [i \in 1..Len(Declared) |-> Declared[i].Path]
            = << <<"w","s",".","p","o","r","t">>, <<"t","c","p",".","p","o","r","t">> >>

\* C7, for --ws.port=1 --tcp.port=2 on NodeCmd
WsTcpExample ==
    (pc = "done" /\ root = "NodeCmd"
        /\ argv = << <<"-","-","w","s",".","p","o","r","t","=","1">>,
                     <<"-","-","t","c","p",".","p","o","r","t","=","2">> >>) =>
        /\ result.err.kind \in RunOutcomes
        /\ mem[<<"NodeCmd","Websocket","Port">>] = 1
        /\ mem[<<"NodeCmd","Tcp","Port">>] = 2

\* C7, the frame of a step of the tokenizer or of the positional binding: a bound
\* field changes only in a step that applies a value to its own path
FrameStep ==
    pc \in {"parse", "bind"} =>
        \A k \in 1..Len(Declared) :
            mem'[Declared[k].Flag.Value.addr] # mem[Declared[k].Flag.Value.addr] =>
                \E i \in (Len(log) + 1)..Len(log') :
                    log'[i].op = "Set" /\ log'[i].path = Declared[k].Path

\* C7: the sub-groups .ws and .tcp, each with a port flag, load as the distinct
\* paths ws.port and tcp.port; --ws.port=1 --tcp.port=2 sets the ws field to 1 and
\* the tcp field to 2; a flag applied changes only the field of its own path.
C7_GroupsIndependent == []NodeCmdPaths /\ []WsTcpExample /\ [][FrameStep]_vars

\* C7: both ports were set, each to its own value
C7_Witness ==
    /\ pc = "done" /\ root = "NodeCmd"
    /\ argv = << <<"-","-","w","s",".","p","o","r","t","=","1">>,
                 <<"-","-","t","c","p",".","p","o","r","t","=","2">> >>
    /\ mem[<<"NodeCmd","Websocket","Port">>] = 1
    /\ mem[<<"NodeCmd","Tcp","Port">>] = 2

\* the five spellings of the value 5 for the flag --low / -l
LowSpellings ==
    { << <<"-","-","l","o","w","=","5">> >>,
      << <<"-","-","l","o","w">>, <<"5">> >>,
      << <<"-","l","5">> >>,
      << <<"-","l","=","5">> >>,
      << <<"-","l">>, <<"5">> >> }

\* C8: spelling equivalence.  For a flag with a long path and a shorthand letter
\* that takes no implicit value, --p=v, --p v, -cv, -c=v and -c v all apply the
\* value v to that flag and leave the same remainder: with --low/-l and
\* --high/-h each spelling of low = 5 ends with low bound to 5, high untouched
\* and nothing left for Run.
C8_SpellingEquivalence ==
    (pc = "done" /\ root = "ShortCmd" /\ argv \in LowSpellings) =>
        /\ result.err.kind \in RunOutcomes
        /\ mem[<<"ShortCmd","LowBound">>] = 5
        /\ mem[<<"ShortCmd","HighBound">>] = 0
        /\ remaining = <<>>

\* C9: a field tagged `ask:"-v"` loads as a flag with Shorthand 'v' named "v", and
\* a field tagged `ask:"--verbose -v"` loads as one flag named "verbose" with
\* Shorthand 'v'.
C9_ShorthandDeclarationsLoad ==
    (pc # "load" /\ root \in {"VerboseCmd", "VerboseLongCmd"}) =>
        /\ pc # "loadFailed"
        /\ Len(descr.FlagGroup.Flags) = 1
        /\ descr.FlagGroup.Flags[1].Shorthand = Ascii["v"]
        /\ descr.FlagGroup.Flags[1].Name =
              IF root = "VerboseCmd" THEN <<"v">> ELSE <<"v","e","r","b","o","s","e">>

\* the paths of the deprecated flags of the current description
DeprecatedPaths ==
    {Declared[i].Path : i \in {j \in 1..Len(Declared) : Declared[j].Flag.Deprecated # ""}}

\* the occurrences of a deprecated flag among the flag tokens of argv
DeprecatedOccurrences ==
    {i \in FlagTokenPositions :
        /\ Len(argv[i]) > 2 /\ argv[i][2] = "-"
        /\ SplitN2(SubSeq(argv[i], 3, Len(argv[i])), "=")[1] \in DeprecatedPaths}

\* C10: for every occurrence of a deprecated flag in the arguments Execute calls
\* opts.OnDeprecated exactly once with that flag, before the value of that
\* occurrence is applied by Value.Set; a flag without a deprecation reason never
\* triggers the callback.
C10_OnDeprecatedOncePerOccurrence ==
    /\ opts = "nil" => Events("OnDeprecated") = {}
    /\ opts # "nil" =>
        /\ \A i \in Events("Set") :
              log[i].path \in DeprecatedPaths =>
                  /\ i > 1
                  /\ log[i - 1] = [log[i] EXCEPT !.op = "OnDeprecated"]
        /\ \A i \in Events("OnDeprecated") :
              /\ log[i].path \in DeprecatedPaths
              /\ i < Len(log) => log[i + 1] = [log[i] EXCEPT !.op = "Set"]
              /\ i = Len(log) => opts = "reject"
        /\ Events("Run") # {} =>
              Cardinality(Events("OnDeprecated")) = Cardinality(DeprecatedOccurrences)

\* C10: --old=x was given twice, the callback was called twice, each time
\* before the value was set
C10_Witness ==
    /\ pc = "done" /\ root = "Connect" /\ opts = "accept"
    /\ argv = << <<"-","-","o","l","d","=","x">>, <<"-","-","o","l","d","=","x">>, <<"a">> >>
    /\ Cardinality(Events("OnDeprecated")) = 2
    /\ Events("Run") # {}
    /\ mem[<<"Connect","Old">>] = <<"x">>

-----------------------------------------------------------------------------
(* Deprecated flags rejected by the callback *)

\* the declared flag of a path
DeclaredAt(path) ==
    Declared[CHOOSE i \in 1..Len(Declared) : Declared[i].Path = path]

\* the change markers registered for a path
MarkersOf(path) ==
    IF path \in DOMAIN descr.ChangedMarkers
    THEN {descr.ChangedMarkers[path][i] : i \in 1..Len(descr.ChangedMarkers[path])}
    ELSE {}

\* C11: when opts.OnDeprecated returns an error for a supplied deprecated flag,
\* Execute ends at once with an error, and the flag is not bound: its field keeps
\* the value it had, no change marker registered for its path is true, nothing
\* is processed after the callback and Run is not called.
C11_RejectedFlagNotBound ==
    \A i \in Events("OnDeprecated") :
        opts = "reject" =>
            /\ pc = "done" /\ result.err.kind # "nil"
            /\ i = Len(log)
            /\ Events("Run") = {}
            /\ \A j \in Events("Set") : log[j].path # log[i].path
            /\ mem[DeclaredAt(log[i].path).Flag.Value.addr] = <<>>
            /\ \A ptr \in MarkersOf(log[i].path) : mem[ptr] = FALSE

-----------------------------------------------------------------------------
(* Change tracking *)

\* the paths Execute applied a value to, by a flag token or a positional
Supplied == {log[j].path : j \in Events("Set")}

\* the long names of the flag tokens of argv
FlagTokenNames ==
    {SplitN2(SubSeq(argv[i], 3, Len(argv[i])), "=")[1] :
        i \in {j \in FlagTokenPositions : Len(argv[j]) > 2 /\ argv[j][2] = "-"}}

\* C12: after a successful Execute every boolean registered with changed:"p" is
\* true when path p was supplied, by a flag token or by positional binding, all
\* booleans of one path alike, and every boolean of a path that was not supplied
\* is still false, also when Default() gave the tracked field a non-zero value.
C12_ChangeTracking ==
    (pc = "done" /\ result.err.kind = "nil") =>
        /\ \A p \in DOMAIN descr.ChangedMarkers :
              \A ptr \in MarkersOf(p) : mem[ptr] = (p \in Supplied)
        /\ descr.Command = "Connect" =>
              /\ <<"i","d">> \in Supplied /\ mem[<<"Connect","IdIsSet">>]
              /\ mem[<<"Connect","PortIsSet">>] = mem[<<"Connect","PortAlsoSet">>]
              /\ mem[<<"Connect","PortIsSet">>] = (<<"p","o","r","t">> \in FlagTokenNames)
              /\ mem[<<"Connect","OldIsSet">>] = (<<"o","l","d">> \in FlagTokenNames)
              /\ ~mem[<<"Connect","PortIsSet">>] => mem[<<"Connect","Port">>] = 9000

\* C12: Execute of Connect with --port=5 a: both markers of port and the marker
\* of id are true, the marker of old is false
C12_Witness ==
    /\ pc = "done" /\ root = "Connect" /\ result.err.kind = "nil"
    /\ argv = << <<"-","-","p","o","r","t","=","5">>, <<"a">> >>
    /\ mem[<<"Connect","PortIsSet">>] /\ mem[<<"Connect","PortAlsoSet">>]
    /\ mem[<<"Connect","IdIsSet">>] /\ ~mem[<<"Connect","OldIsSet">>]
    /\ mem[<<"Connect","Port">>] = 5

\* C12: Execute of Connect with only a positional: Default() made Port 9000 and
\* the markers of port stay false
C12_DefaultWitness ==
    /\ pc = "done" /\ root = "Connect" /\ result.err.kind = "nil"
    /\ argv = << <<"a">> >>
    /\ mem[<<"Connect","Port">>] = 9000
    /\ ~mem[<<"Connect","PortIsSet">>] /\ ~mem[<<"Connect","PortAlsoSet">>]

-----------------------------------------------------------------------------
(* The positional remainder of ParseArgs *)

\* a token that ParseArgs reads as a flag or as the terminator
FlagShaped(s) == Len(s) > 1 /\ s[1] = "-"

\* a flag token that names a declared flag whose value is optional
\* (ImplicitValue): by its name, or by its first shorthand letter
ImplicitToken(s) ==
    \E k \in 1..Len(Declared) :
        /\ IsImplicitValue(Declared[k].Flag.Value)
        /\ IF s[2] = "-" THEN Declared[k].Path = SplitN2(From(s, 2), "=")[1]
           ELSE Declared[k].Flag.Shorthand = Ascii[s[2]]

\* a flag token that carries no value of its own and needs one: --name, or -x
TakesNext(s) ==
    (IF s[2] = "-" THEN IndexOf(s, "=", 1) = 0 ELSE Len(s) = 2) /\ ~ImplicitToken(s)

\* the flags a flag token applies: one, or one per letter for a run of
\* shorthands of flags with an optional value
FlagsOfToken(s) ==
    IF s[2] # "-" /\ ImplicitToken(s) THEN [i \in 1..(Len(s) - 1) |-> <<"-", s[i + 1]>>]
    ELSE <<s>>

\* the tokens after the first one and after the value it consumes
AfterToken(toks) ==
    IF FlagShaped(toks[1]) /\ TakesNext(toks[1]) /\ Len(toks) > 1
    THEN Tail(Tail(toks))
    ELSE Tail(toks)

\* the remainder the claim describes, computed from the token list alone
RECURSIVE ExpectedRemainder(_)
ExpectedRemainder(toks) ==
    IF toks = <<>> THEN <<>>
    ELSE IF toks[1] = <<"-","-">> THEN Tail(toks)
    ELSE (IF FlagShaped(toks[1]) THEN <<>> ELSE <<toks[1]>>)
             \o ExpectedRemainder(AfterToken(toks))

\* the flag tokens before the first "--" that are no value of a preceding flag
RECURSIVE ExpectedFlags(_)
ExpectedFlags(toks) ==
    IF toks = <<>> \/ toks[1] = <<"-","-">> THEN <<>>
    ELSE (IF FlagShaped(toks[1]) THEN FlagsOfToken(toks[1]) ELSE <<>>)
             \o ExpectedFlags(AfterToken(toks))

\* the Set events of the log, in order
SetEvents == SelectSeq(log, LAMBDA e : e.op = "Set")

\* the tokens Execute handed to ParseArgs: argv without the route segments
Parsed == From(argv, level)

\* C13: when ParseArgs has returned without an error, the remainder is, in the
\* original order, every token before the first bare "--" that is not
\* flag-shaped and was not consumed as the value of a flag, followed by every
\* token after that "--"; the "--" is dropped; the flags applied are exactly
\* the flag tokens before the "--", also those after a positional token.
C13_PositionalRemainder ==
    pc = "bind" =>
        /\ remaining = ExpectedRemainder(Parsed)
        /\ Len(SetEvents) = Len(ExpectedFlags(Parsed))
        /\ \A k \in 1..Len(SetEvents) :
              ExpectedFlags(Parsed)[k][2] = "-" =>
                  SetEvents[k].path = SplitN2(From(ExpectedFlags(Parsed)[k], 2), "=")[1]

\* C13: Connect with a -- --port=5: both a and the flag-shaped token after the
\* terminator are positional, no flag was applied
C13_Witness ==
    /\ pc = "bind" /\ root = "Connect"
    /\ argv = << <<"a">>, <<"-","-">>, <<"-","-","p","o","r","t","=","5">> >>
    /\ remaining = << <<"a">>, <<"-","-","p","o","r","t","=","5">> >>
    /\ Events("Set") = {}

\* C13: NodeCmd with x --ws.port 7: the flag after the positional token is
\* applied and its value is not part of the remainder
C13_FlagAfterPositional ==
    /\ pc = "bind" /\ root = "NodeCmd"
    /\ argv = << <<"x">>, <<"-","-","w","s",".","p","o","r","t">>, <<"7">> >>
    /\ remaining = << <<"x">> >>
    /\ mem[<<"NodeCmd","Websocket","Port">>] = 7

-----------------------------------------------------------------------------
(* A route that ignores the first token *)

\* C14, the step of Execute in which CommandRoute.Cmd returns nil, nil: the
\* description, the token list with its first token, the recursion level and
\* the fields stay as they are, nothing is loaded, and the tokens go to ParseArgs
IgnoredRouteStep ==
    (pc = "execute" /\ descr.CommandRoute # "nil" /\ args # <<>>
        /\ args[1] \notin HelpSpellings
        /\ Cmd(descr.CommandRoute, args[1]) = [sub |-> "nil", err |-> NoErr]) =>
        /\ pc' = "parse"
        /\ args' = args
        /\ descr' = descr
        /\ level' = level
        /\ mem' = mem
        /\ log' = Append(log, Ev("Cmd", args[1], <<>>))

\* C14, for RouteCmd, which knows connect only: any other first token is
\* handled by RouteCmd itself, as a flag or as its positional
IgnoredRouteExample ==
    (pc = "done" /\ root = "RouteCmd" /\ argv # <<>>
        /\ argv[1] # <<"c","o","n","n","e","c","t">>) =>
        /\ level = 0
        /\ Events("Default") = {}
        /\ descr.Command = "RouteCmd" /\ descr.CommandRoute = "RouteCmd"
        /\ Events("Cmd") = {1} /\ log[1].path = argv[1]
        /\ result.err.kind = "nil" =>
              /\ argv[1] = <<"a">> => mem[<<"RouteCmd","Name">>] = <<"a">>
              /\ argv[1] = <<"7">> => mem[<<"RouteCmd","Name">>] = <<"7">>
              /\ argv[1] = <<"-","-","p","o","r","t","=","5">> =>
                    /\ mem[<<"RouteCmd","Port">>] = 5
                    /\ log[2] = Ev("Set", <<"p","o","r","t">>, <<"5">>)

\* C14: when CommandRoute.Cmd returns (nil, nil) for the first token, Execute goes
\* on as a regular command on the same description with the original token list,
\* first token included: that token is parsed as a flag or bound as a positional
\* of this description, and no sub-command is loaded.
C14_IgnoredRouteFallsThrough == [][IgnoredRouteStep]_vars /\ []IgnoredRouteExample

\* C14: RouteCmd with a --port=5: a became the positional of RouteCmd, the flag
\* was applied to RouteCmd, and RouteCmd ran
C14_Witness ==
    /\ pc = "done" /\ root = "RouteCmd"
    /\ argv = << <<"a">>, <<"-","-","p","o","r","t","=","5">> >>
    /\ level = 0
    /\ mem[<<"RouteCmd","Name">>] = <<"a">> /\ mem[<<"RouteCmd","Port">>] = 5
    /\ log[1] = Ev("Cmd", <<"a">>, <<>>)
    /\ log[Len(log)].op = "Run" /\ log[Len(log)].path = <<"RouteCmd">>

-----------------------------------------------------------------------------
(* Slice binders *)

\* texts of three valid elements, with the sequence they denote
ThreeElements ==
    [uint16Slice |-> { << <<"1",",","2",",","3">>, <<1, 2, 3>> >>,
                       << <<"3",",","2",",","1">>, <<3, 2, 1>> >> },
     boolSlice |-> { << <<"1",",","0",",","1">>, <<TRUE, FALSE, TRUE>> >>,
                     << <<"0",",","1",",","1">>, <<FALSE, TRUE, TRUE>> >>,
                     << <<"t",",","f",",","t">>, <<TRUE, FALSE, TRUE>> >> },
     stringSlice |-> { << <<"a",",","b",",","c">>, << <<"a">>, <<"b">>, <<"c">> >> >>,
                       << <<"c",",","b",",","a">>, << <<"c">>, <<"b">>, <<"a">> >> >> },
     bytes2Slice |-> { << <<"a","1","b","2",",","0","0","0","1",",","f","f","f","f">>,
                          << <<161, 178>>, <<0, 1>>, <<255, 255>> >> >>,
                       << <<"0","x","A","1","B","2",","," ","0","0","0","1"," ",",",
                            "0","x","f","f","f","f">>,
                          << <<161, 178>>, <<0, 1>>, <<255, 255>> >> >> }]

\* Set of a text of three valid elements stored exactly these, in input order
ThreeElementsStored ==
    (pc = "set" /\ root \in SliceTypes) =>
        \A e \in ThreeElements[root] :
            argv[1] = e[1] =>
                /\ result.err.kind = "nil"
                /\ Len(mem[ValueAddr]) = 3
                /\ mem[ValueAddr] = e[2]

\* Set of the empty text succeeded and stored the empty sequence
EmptyTextStored ==
    (pc = "set" /\ root \in SliceTypes /\ argv[1] = <<>>) =>
        /\ result.err.kind = "nil"
        /\ mem[ValueAddr] = <<>>

\* C15: for every slice-typed Value, Set("a,b,c") with three valid elements
\* stores a sequence of exactly 3 elements in input order, and Set("") succeeds
\* and stores an empty sequence.
C15_SliceSet == ThreeElementsStored /\ EmptyTextStored

-----------------------------------------------------------------------------
(* Hex binders *)

\* three spellings of the bytes a1 b2
SpellingsOfA1B2 ==
    {<<"0","x","A","1","B","2">>, <<"a","1","b","2">>, <<" ","A","1","B","2"," ">>}

\* texts that decode to another number of bytes than 2, with that number
OtherLengths ==
    { << <<>>, 0 >>, << <<"0","x">>, 0 >>, << <<"a","1">>, 1 >>,
      << <<"a","1","b","2","c","3">>, 3 >> }

\* C16, on the byte slice and on the array of 2 bytes: the three spellings
\* store the same two bytes
SameTwoBytes ==
    (pc = "set" /\ root \in {"bytes", "bytes2"} /\ argv[1] \in SpellingsOfA1B2) =>
        /\ result.err.kind = "nil"
        /\ mem[ValueAddr] = <<161, 178>>

\* C16, the Set of an array of 2 bytes with a text of another decoded length:
\* the error names 2 and the decoded length, the bytes stay as they were
WrongLengthStep ==
    (pc = "value" /\ root = "bytes2" /\ argv # <<>>) =>
        \A e \in OtherLengths :
            argv[1] = e[1] =>
                /\ result'.err = Errorf("byte length does not match fixed-length", <<2, e[2]>>)
                /\ mem' = mem

\* C16: Set("0xA1B2"), Set("a1b2") and Set(" A1B2 ") store the same two-byte
\* value; for a fixed-length byte array of length N, Set of input that decodes
\* to another number of bytes returns an error naming N and the actual length
\* and leaves the destination bytes unchanged.
C16_HexCodec == [][WrongLengthStep]_vars /\ []SameTwoBytes

\* C16: three bytes were offered to an array of 2 bytes that held ef 01
C16_Witness ==
    /\ pc = "set" /\ root = "bytes2"
    /\ argv = << <<"a","1","b","2","c","3">> >>
    /\ result.err = Errorf("byte length does not match fixed-length", <<2, 3>>)
    /\ mem[ValueAddr] = <<239, 1>>

\* C16: the spelling with blanks and capitals was stored in a byte slice
C16_SpellingWitness ==
    /\ pc = "set" /\ root = "bytes"
    /\ argv = << <<" ","A","1","B","2"," ">> >>
    /\ result.err.kind = "nil" /\ mem[ValueAddr] = <<161, 178>>

-----------------------------------------------------------------------------
(* Integer binders *)

C17_InRangeWitness ==
    /\ pc = "set" /\ root = "int8"
    /\ argv = << <<"-","1","2","8">> >>
    /\ result.err.kind = "nil"
    /\ mem[ValueAddr] = 0 - 128

-----------------------------------------------------------------------------
(* Round trip of the primitive binders *)

\* C18, the step Set(String()) on a field that holds x: Set returns no error,
\* the field still holds x, and String() renders the same text again
RoundTripStep ==
    (pc = "rendered" /\ root \in PrimitiveTypes) =>
        /\ result'.err.kind = "nil"
        /\ mem' = mem
        /\ ValueString(Binder, mem') = remaining[1]

\* C18, on the numerals: what String() renders for an integer field is the
\* decimal numeral of the number it holds
RendersNumeral ==
    (pc = "rendered" /\ root \in IntegerTypes) => remaining[1] = Numeral(mem[ValueAddr])

\* C18: for every integer, bool and string Value and every value x it can hold,
\* Set(String()) succeeds when the field holds x and leaves the field equal to
\* x, and String() afterwards returns the same text.
C18_RoundTrip == [][RoundTripStep]_vars /\ []RendersNumeral

\* C18: an int8 field that holds -128 was rendered and set from the rendering
C18_Witness ==
    /\ pc = "roundTrip" /\ root = "int8"
    /\ remaining = << <<"-","1","2","8">> >>
    /\ result.err.kind = "nil"
    /\ mem[ValueAddr] = 0 - 128

-----------------------------------------------------------------------------
(* Several values loaded into one description *)

\* the paths of the flags of the current description
DeclaredPaths == {Declared[i].Path : i \in 1..Len(Declared)}

\* C19: after descr.Load was called with a second value, the flag set of the
\* description contains the flags of every loaded value, so that Execute can set
\* the flags of the first and of the second value, and Command and CommandRoute
\* are those of the first loaded value that provides them.
C19_LoadsAccumulate ==
    (root = "LowCmd" /\ pc \notin {"load", "loadMore", "loadFailed"}) =>
        /\ descr.Command = "LowCmd"
        /\ descr.CommandRoute = "HighCmd"
        /\ {<<"l","o","w">>, <<"h","i","g","h">>} \subseteq DeclaredPaths
        /\ (pc = "done" /\ argv = << <<"-","-","l","o","w","=","5">>,
                                     <<"-","-","h","i","g","h","=","1","0">> >>) =>
              /\ result.err.kind \in RunOutcomes
              /\ mem[<<"LowCmd","Low">>] = 5
              /\ mem[<<"HighCmd","High">>] = 10

-----------------------------------------------------------------------------
(* Flag tokens that match no declared flag *)

\* the declared long names and shorthand letters of the current description
LongNames == {Declared[i].Path : i \in {j \in 1..Len(Declared) : ~Declared[j].Flag.IsArg}}
ShorthandLetters ==
    {Declared[i].Flag.Shorthand :
        i \in {j \in 1..Len(Declared) : ~Declared[j].Flag.IsArg /\ Declared[j].Flag.Shorthand # 0}}

\* the name of a long flag token
LongNameOf(tok) == SplitN2(From(tok, 2), "=")[1]

\* the token ParseArgs looks at is a flag token
AtFlagToken == pc = "parse" /\ FlagShaped(args[1]) /\ args[1] # <<"-","-">>

\* ParseArgs at an unmatched long flag: HelpErr for help, otherwise an error
\* naming the flag; no flag is applied
UnmatchedLongStep ==
    (AtFlagToken /\ args[1][2] = "-" /\ LongNameOf(args[1]) \notin LongNames) =>
        /\ pc' = "done"
        /\ result'.err = IF LongNameOf(args[1]) = <<"h","e","l","p">> THEN HelpErr
                         ELSE Errorf("unrecognized flag", LongNameOf(args[1]))
        /\ log' = log /\ mem' = mem

\* ParseArgs at a shorthand letter that is no declared shorthand: HelpErr for
\* h, otherwise an error naming the letter; no flag is applied
UnmatchedShortStep ==
    (AtFlagToken /\ args[1][2] # "-" /\ Ascii[args[1][2]] \notin ShorthandLetters) =>
        /\ pc' = "done"
        /\ result'.err = IF args[1][2] = "h" THEN HelpErr
                         ELSE Errorf("unknown shorthand flag",
                                     <<<<args[1][2]>>, From(args[1], 1)>>)
        /\ log' = log /\ mem' = mem

\* ParseArgs applies a flag only for a token of its name or of its shorthand
AppliedOnlyWhenNamedStep ==
    AtFlagToken =>
        \A j \in (Len(log) + 1)..Len(log') :
            log'[j].op = "Set" =>
                IF args[1][2] = "-"
                THEN LongNameOf(args[1]) = log'[j].path
                ELSE Ascii[args[1][2]] = DeclaredAt(log'[j].path).Flag.Shorthand

\* C20: a flag token that matches no declared flag never applies any flag: an
\* unmatched long flag help and an unmatched shorthand letter h yield HelpErr,
\* every other unmatched long name an error naming the flag, every other
\* shorthand letter that is no declared shorthand an error naming the letter;
\* a shorthand letter is applied only to the flag whose declared shorthand is
\* exactly that letter.
C20_UnmatchedFlagNeverApplies ==
    [][UnmatchedLongStep /\ UnmatchedShortStep /\ AppliedOnlyWhenNamedStep]_vars

-----------------------------------------------------------------------------
(* The order of the lists handed to ParseArgs *)

\* the list is in ascending order of its dotted paths
SortedByPath(flags) ==
    \A i \in 1..(Len(flags) - 1) : ~StrLess(flags[i + 1].Path, flags[i].Path)

\* the list is in ascending order of its shorthand letters
SortedByShorthand(flags) ==
    \A i \in 1..(Len(flags) - 1) : flags[i].Flag.Shorthand <= flags[i + 1].Flag.Shorthand

\* C21: whenever Execute calls ParseArgs, the long-flag list it passes is sorted
\* ascending by dotted path and the short-flag list it passes is sorted
\* ascending by shorthand letter, so that the precondition of the tokenizer's
\* ordered search holds.
C21_ListsSorted ==
    pc \in {"parse", "bind"} =>
        /\ long = LongFlags(Declared) /\ short = ShortFlags(Declared)
        /\ SortedByPath(long)
        /\ SortedByShorthand(short)

-----------------------------------------------------------------------------
(* Positional slots supplied in flag syntax *)

\* the value a long flag token carries, or takes from the token after it
LongValueOf(toks) ==
    IF Len(SplitN2(From(toks[1], 2), "=")) = 2 THEN SplitN2(From(toks[1], 2), "=")[2]
    ELSE toks[2]

\* ParseArgs at a long flag token that names a positional slot and has a value:
\* the value is stored in the field of the slot and the slot is marked as seen
SlotByFlagStep ==
    (AtFlagToken /\ args[1][2] = "-" /\ LongNameOf(args[1]) \in PositionalPaths
        /\ (IndexOf(args[1], "=", 1) # 0 \/ Len(args) > 1)
        /\ BindsAnyToken(DeclaredAt(LongNameOf(args[1])))) =>
        /\ pc' # "done"
        /\ LongNameOf(args[1]) \in seen'
        /\ mem'[DeclaredAt(LongNameOf(args[1])).Flag.Value.addr] = LongValueOf(args)
        /\ log' = Append(log, Ev("Set", LongNameOf(args[1]), LongValueOf(args)))

\* the positional binding binds no slot that is marked as seen
BindSkipsSeenStep ==
    pc = "bind" =>
        \A j \in (Len(log) + 1)..Len(log') : log'[j].op = "Set" => log'[j].path \notin seen

\* for --id=b a on Connect: id is b, and a goes to the optional slot more
IdByFlagExample ==
    (pc = "done" /\ root = "Connect"
        /\ argv = << <<"-","-","i","d","=","b">>, <<"a">> >>) =>
        /\ result.err.kind \in RunOutcomes
        /\ mem[<<"Connect","PeerID">>] = <<"b">>
        /\ mem[<<"Connect","More">>] = <<"a">>
        /\ mem[<<"Connect","IdIsSet">>]

\* C22: a declared positional slot with dotted path p can also be supplied in
\* flag syntax, --p=value or --p value: the tokenizer then sets its field and
\* marks p as seen, and the positional binding skips that slot and binds the
\* leftover positional tokens to the remaining slots only.
C22_SlotByFlagSyntax == [][SlotByFlagStep /\ BindSkipsSeenStep]_vars /\ []IdByFlagExample

-----------------------------------------------------------------------------
(* The order of the positional slots *)

\* the positional slots of a structure in the order of their declaration, from
\* the declarations alone: a group contributes its slots where it is declared
RECURSIVE SlotsDeclared(_, _)
SlotsDeclared(fields, prefix) ==
    IF fields = <<>> THEN <<>>
    ELSE LET f == fields[1]
             tag == IF "ask" \in DOMAIN f.Tag THEN f.Tag.ask ELSE <<>>
             path == IF prefix = <<>> THEN Slice(tag, 1, Len(tag) - 1)
                     ELSE prefix \o <<".">> \o Slice(tag, 1, Len(tag) - 1)
             here ==
                 IF tag = <<>> \/ tag = <<"-">> THEN <<>>
                 ELSE IF tag = <<".">> THEN SlotsDeclared(StructFields(f.Type.Name), prefix)
                 ELSE IF tag[1] = "."
                 THEN SlotsDeclared(StructFields(f.Type.Name),
                                    IF prefix = <<>> THEN Tail(tag)
                                    ELSE prefix \o <<".">> \o Tail(tag))
                 ELSE IF tag[1] = "<" THEN << [path |-> path, required |-> TRUE] >>
                 ELSE IF tag[1] = "[" THEN << [path |-> path, required |-> FALSE] >>
                 ELSE <<>>
         IN  here \o SlotsDeclared(Tail(fields), prefix)

\* the paths of the required slots of the executed command in declaration
\* order, followed by those of its optional slots in declaration order
SlotOrder ==
    LET slots == SlotsDeclared(StructFields(descr.Command), <<>>)
        req == SelectSeq(slots, LAMBDA x : x.required)
        opt == SelectSeq(slots, LAMBDA x : ~x.required)
    IN  [i \in 1..Len(req) |-> req[i].path] \o [i \in 1..Len(opt) |-> opt[i].path]

\* the values applied to positional slots, in the order they were applied
PositionalSets == SelectSeq(log, LAMBDA e : e.op = "Set" /\ e.path \in PositionalPaths)

\* when Run was called, the k-th leftover token was bound to the k-th slot in
\* declaration order
BoundInDeclarationOrder ==
    (pc = "done" /\ Events("Run") # {}) =>
        /\ Len(PositionalSets) <= Len(SlotOrder)
        /\ \A k \in 1..Len(PositionalSets) :
              /\ PositionalSets[k].path = SlotOrder[k]
              /\ PositionalSets[k].value = ExpectedRemainder(Parsed)[k]

\* the header of Usage names the slots in declaration order
RECURSIVE HeaderOf(_, _)
HeaderOf(slots, k) ==
    IF k > Len(slots) THEN <<>>
    ELSE <<" ", IF slots[k].required THEN "<" ELSE "[">> \o slots[k].path
            \o <<IF slots[k].required THEN ">" ELSE "]">> \o HeaderOf(slots, k + 1)

HeaderInDeclarationOrder ==
    (pc \in {"parse", "bind", "dispatch", "done"} /\ ~result.final.nil
        /\ descr.Command \notin {"nil", "LowCmd"}) =>
        LET slots == SlotsDeclared(StructFields(descr.Command), <<>>)
        IN  UsageHeader(descr) =
                <<"(","c","o","m","m","a","n","d",")">>
                    \o HeaderOf(SelectSeq(slots, LAMBDA x : x.required), 1)
                    \o HeaderOf(SelectSeq(slots, LAMBDA x : ~x.required), 1)

\* for a b 7 on the command with a slot in a sub-group, one in an inline group
\* and one in a plain field after them
ThreeSlotsExample ==
    (pc = "done" /\ root = "OrderCmd" /\ argv = << <<"a">>, <<"b">>, <<"7">> >>) =>
        /\ mem[<<"OrderCmd","Peer","First">>] = <<"a">>
        /\ mem[<<"OrderCmd","SecondSlot","Second">>] = <<"b">>
        /\ mem[<<"OrderCmd","Third">>] = <<"7">>

\* C23: required positional slots, and after them optional positional slots,
\* are bound to the leftover tokens in the order in which the slots are declared
\* in the structure, also when slots are spread over nested groups, inline
\* groups and plain fields declared after a group, and this is the order in
\* which the header of Usage lists them.
C23_SlotsInDeclarationOrder ==
    BoundInDeclarationOrder /\ HeaderInDeclarationOrder /\ ThreeSlotsExample

-----------------------------------------------------------------------------
(* Flags with an implicit value *)

\* the declared flag of a shorthand letter
DeclaredByLetter(c) ==
    Declared[CHOOSE i \in 1..Len(Declared) :
                ~Declared[i].Flag.IsArg /\ Declared[i].Flag.Shorthand = Ascii[c]]

\* ParseArgs at --p of a flag with an implicit value: the implicit value is
\* applied to p, and only the token --p is consumed
ImplicitLongStep ==
    (AtFlagToken /\ args[1][2] = "-" /\ IndexOf(args[1], "=", 1) = 0
        /\ LongNameOf(args[1]) \in LongNames
        /\ IsImplicitValue(DeclaredAt(LongNameOf(args[1])).Flag.Value)) =>
        /\ pc' # "done"
        /\ args' = Tail(args)
        /\ remaining' = remaining
        /\ log' = Append(log, Ev("Set", LongNameOf(args[1]), <<"t","r","u","e">>))
        /\ mem'[DeclaredAt(LongNameOf(args[1])).Flag.Value.addr] = TRUE

\* ParseArgs at a run of shorthand letters of flags with an implicit value: each
\* letter applies the implicit value to its own flag, once, from left to
\* right, and only the token of the run is consumed
ImplicitShortStep ==
    (AtFlagToken /\ args[1][2] # "-"
        /\ \A k \in 2..Len(args[1]) :
              /\ Ascii[args[1][k]] \in ShorthandLetters
              /\ IsImplicitValue(DeclaredByLetter(args[1][k]).Flag.Value)) =>
        /\ pc' # "done"
        /\ args' = Tail(args)
        /\ remaining' = remaining
        /\ log' = log \o [k \in 1..(Len(args[1]) - 1) |->
                              Ev("Set", DeclaredByLetter(args[1][k + 1]).Path, <<"t","r","u","e">>)]

\* for --aa x: x is left as a positional token; for -abc: a, b and c are set
ImplicitExamples ==
    (pc = "done" /\ root = "SwitchCmd") =>
        /\ argv = << <<"-","-","a","a">>, <<"x">> >> =>
              /\ mem[<<"SwitchCmd","A">>] /\ ~mem[<<"SwitchCmd","B">>]
              /\ remaining = << <<"x">> >>
              /\ log[Len(log)] = Ev("Run", <<"SwitchCmd">>, << <<"x">> >>)
        /\ argv = << <<"-","a","b","c">> >> =>
              /\ mem[<<"SwitchCmd","A">>] /\ mem[<<"SwitchCmd","B">>] /\ mem[<<"SwitchCmd","C">>]
              /\ Cardinality(Events("Set")) = 3

\* C24: a flag whose Value accepts an implicit value and that is supplied
\* without = is applied with the implicit value and consumes nothing else:
\* --p next leaves next as a positional token, and in a shorthand run such as
\* -abc of implicit-valued flags parsing continues with the next letter of the
\* same token, so that a, b and c are each applied exactly once, left to right.
C24_ImplicitValue == [][ImplicitLongStep /\ ImplicitShortStep]_vars /\ []ImplicitExamples

-----------------------------------------------------------------------------
(* The order of the Default() calls of Load *)

\* the structures with a Default() in depth-first order of declaration, from
\* the declarations alone: a structure itself, then its groups as declared
RECURSIVE DefaultsDeclared(_), DefaultsOfFields(_, _)
DefaultsDeclared(name) ==
    (IF "InitDefault" \in PtrMethods(name) THEN << <<name>> >> ELSE <<>>)
        \o DefaultsOfFields(StructFields(name), 1)

DefaultsOfFields(fields, i) ==
    IF i > Len(fields) THEN <<>>
    ELSE (IF "ask" \in DOMAIN fields[i].Tag /\ fields[i].Tag.ask[1] = "."
          THEN DefaultsDeclared(IF fields[i].Type.Kind = "ptr" THEN fields[i].Type.Elem.Name
                                ELSE fields[i].Type.Name)
          ELSE <<>>)
             \o DefaultsOfFields(fields, i + 1)

\* the structures whose Default() was called, in the order of the calls
DefaultCalls ==
    LET calls == SelectSeq(log, LAMBDA e : e.op = "Default")
    IN  [k \in 1..Len(calls) |-> calls[k].path]

\* Load calls Default() of the loaded structure first, then those of its
\* groups, depth-first in the order of declaration
DefaultsInOrder ==
    pc # "load" =>
        DefaultCalls = DefaultsDeclared(root)
                           \o (IF level > 0 THEN DefaultsDeclared(descr.Command) ELSE <<>>)

\* what String() renders for the value x of a field of the given kind
Rendering(kind, x) ==
    CASE kind = "uint16" -> Numeral(x)
      [] kind \in {"bool", "Switch"} ->
            IF x THEN <<"t","r","u","e">> ELSE <<"f","a","l","s","e">>
      [] OTHER -> x

\* when Execute is entered, Flag.Default of every flag renders the value its
\* field has after the Default() calls of Load
DefaultsRendered ==
    pc = "execute" =>
        \A k \in 1..Len(Declared) :
            Declared[k].Flag.Default =
                Rendering(Declared[k].Flag.Value.kind, mem[Declared[k].Flag.Value.addr])

\* for the command whose Default() writes limit, inner.level and inner.depth,
\* with groups whose Default() write inner.level and foobar
NestedDefaultsExample ==
    (pc = "execute" /\ root = "OuterCmd") =>
        /\ DefaultCalls = << <<"OuterCmd">>, <<"InnerOptions">>, <<"InlineOptions">> >>
        /\ mem[<<"OuterCmd","Inner","Level">>] = 2
        /\ DeclaredAt(<<"l","i","m","i","t">>).Flag.Default = <<"9","0","0","0">>
        /\ DeclaredAt(<<"i","n","n","e","r",".","l","e","v","e","l">>).Flag.Default = <<"2">>
        /\ DeclaredAt(<<"i","n","n","e","r",".","d","e","p","t","h">>).Flag.Default = <<"7">>
        /\ DeclaredAt(<<"f","o","o","b","a","r">>).Flag.Default = <<"4">>

\* C25: during Load the Default() of a structure is invoked before any of its
\* fields is loaded, that of an outer structure before that of each nested or
\* inline group, in depth-first declaration order; for a field written by
\* several Default() calls the last call wins, and the rendered default of each
\* flag is the value of its field after the Default() calls that precede the
\* loading of the field.
C25_DefaultOrder == DefaultsInOrder /\ DefaultsRendered /\ NestedDefaultsExample

\* C25: the command with the nested Default() calls was loaded: the last
\* writer of inner.level is the group, and its default renders as 2
C25_Witness ==
    /\ pc = "execute" /\ root = "OuterCmd"
    /\ DefaultCalls = << <<"OuterCmd">>, <<"InnerOptions">>, <<"InlineOptions">> >>
    /\ mem[<<"OuterCmd","Inner","Level">>] = 2
    /\ DeclaredAt(<<"i","n","n","e","r",".","l","e","v","e","l">>).Flag.Default = <<"2">>

-----------------------------------------------------------------------------
(* Pointer fields during Load *)

\* the addresses of the tagged pointer fields of the struct at addr and of
\* its groups
RECURSIVE TaggedPointers(_, _)
TaggedPointers(name, addr) ==
    UNION { (IF f.Type.Kind = "ptr" THEN {Append(addr, f.Name)} ELSE {})
                \cup (IF HasPrefix(f.Tag.ask, <<".">>)
                      THEN TaggedPointers(IF f.Type.Kind = "ptr" THEN f.Type.Elem.Name
                                          ELSE f.Type.Name,
                                          Append(addr, f.Name))
                      ELSE {})
            : f \in {g \in {StructFields(name)[i] : i \in 1..Len(StructFields(name))} :
                         getAsk(g).ok /\ g.Tag.ask # <<"-">>} }

\* Default() is never invoked on a pointer that was not allocated yet
DefaultOnAllocated ==
    \A k \in 1..Len(log) : log[k].op = "Default" => log[k].value # <<"nil">>

\* Load never dereferences a nil pointer: no method of a binder or of a group
\* runs on a nil receiver
NoNilReceiver == result.err.kind # PanicErr.kind

\* after a successful Load every tagged pointer field is allocated
PointersAllocated ==
    pc \in {"execute", "parse", "bind", "dispatch", "done"} =>
        \A a \in TaggedPointers(root, <<root>>) : ~IsNil(a, mem)

\* C26: during Load a nil pointer field declared as a flag group or as a flag
\* is allocated before anything is done with its pointee: before its Default()
\* or Help is taken from it or invoked and before any of its fields or its
\* value is bound; after a successful Load no tagged pointer field is nil.
C26_AllocatedBeforeUse == DefaultOnAllocated /\ NoNilReceiver /\ PointersAllocated

-----------------------------------------------------------------------------
(* A failed Load *)

\* a Load that returns an error leaves no flag or group of the value in the
\* description
FailedLoadKeepsGroup ==
    (pc \in {"load", "loadMore"} /\ pc' = "loadFailed" /\ result'.err.kind # PanicErr.kind)
        => descr'.FlagGroup = descr.FlagGroup

\* a Load that returns an error leaves the description as it was before the
\* call: the fresh description for Load(val), descr for descr.Load(val)
FailedLoadStep ==
    (pc \in {"load", "loadMore"} /\ pc' = "loadFailed" /\ result'.err.kind # PanicErr.kind)
        => descr' = IF pc = "load" THEN NewDescr ELSE descr

\* C27: a failed Load is never partially applied: when Load / LoadReflect on
\* a CommandDescription returns an error, the description is left as it was
\* before the call: no flag or group of the failed value is registered, no
\* change-tracking entry of it is added, and neither Command nor CommandRoute
\* is taken from it.
C27_FailedLoadNotApplied == [][FailedLoadStep]_vars

-----------------------------------------------------------------------------
(* Non-atomic apply *)

\* the step at which ParseArgs or the positional binding of Execute fails
ExecuteFails == pc \in {"parse", "bind"} /\ pc' = "done" /\ result'.err.kind # "nil"

\* the flags applied by the tokens before the one being handled
AppliedBefore == {k \in 1..Len(Declared) : Declared[k].Path \in seen}

\* at the failing step the flags applied earlier keep their value and their
\* change markers stay true
KeepsApplied ==
    ExecuteFails =>
        \A k \in AppliedBefore :
            /\ mem'[Declared[k].Flag.Value.addr] = mem[Declared[k].Flag.Value.addr]
            /\ \A a \in MarkersOf(Declared[k].Path) : mem[a] /\ mem'[a]

\* C28: non-atomic apply: when Execute fails at some token (unknown flag,
\* missing value, value rejected by its codec, deprecation rejection, missing
\* required positional), every flag applied by an earlier token of the same
\* call keeps the value that was set and its change markers stay true; nothing
\* applied before the failing token is rolled back.
C28_NonAtomicApply == [][KeepsApplied]_vars

-----------------------------------------------------------------------------
(* A Set that returns an error *)

\* a call of Set of a primitive binder that returns an error
PrimitiveSetFails ==
    /\ root \in PrimitiveTypes
    /\ pc \in {"value", "rendered"} /\ pc' \in {"set", "roundTrip"}
    /\ result'.err.kind # "nil"

\* C29: when Value.Set of a primitive Value returns an error (malformed or
\* out-of-range input), the bound field keeps the value it had before the
\* call, so after a failed Execute the field of the failing flag still holds
\* its default or previously supplied value.
C29_FailedSetKeepsField == [][PrimitiveSetFails => mem' = mem]_vars

-----------------------------------------------------------------------------
(* Termination of Execute *)

\* an iteration of ParseArgs leaves fewer tokens to parse than it found
IterationConsumes == pc = "parse" => Len(args') < Len(args)

\* a routing recursion hands the sub-command the tokens after the route
RoutingConsumes == level' # level => (level' = level + 1 /\ args' = Tail(args))

\* the routing depth and the tokens left never exceed the argument list
DepthBounded == level + Len(args) <= Len(argv)

\* the runs of shorthand letters ParseShortArg's loop can be handed for a token
Suffixes(s) == {From(s, i) : i \in 1..(Len(s) - 1)}

\* an iteration of the loop of ParseShortArg that returns no error leaves
\* fewer letters than it found
ShortIterationConsumes(r, shorthands) ==
    r.err.kind = "nil" => Len(r.remainingShorthands) < Len(shorthands)

ShortRunConsumes ==
    (pc = "parse" /\ Len(args[1]) > 1 /\ args[1][1] = "-" /\ args[1][2] # "-") =>
        \A shorthands \in Suffixes(args[1]) :
            ShortIterationConsumes(
                parseSingleShortArg(short, shorthands, Tail(args), descr, opts,
                                    [seen |-> seen, mem |-> mem, log |-> log]),
                shorthands)

\* C30: Execute terminates for every finite argument list, provided Cmd, Run,
\* Set and the deprecation callback return: each ParseArgs iteration consumes
\* at least one token, each shorthand-run iteration consumes at least one
\* letter, each routing recursion consumes exactly one token, so the recursion
\* depth never exceeds the number of arguments.
C30_ExecuteTerminates ==
    /\ [][IterationConsumes /\ RoutingConsumes]_vars
    /\ [](DepthBounded /\ ShortRunConsumes)
    /\ <>Finished

\* C30: an Execute of three arguments that routed into a sub-command, parsed
\* the two tokens left, applied a flag and returned
C30_Witness ==
    /\ pc = "done" /\ level = 1 /\ Len(argv) = 3 /\ args = <<>>
    /\ Events("Set") # {} /\ result.returned

====
